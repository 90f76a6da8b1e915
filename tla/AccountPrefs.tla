---------------------------- MODULE AccountPrefs ----------------------------
(***************************************************************************)
(* The preferences a browser tab sends to the account (account-prefs.ts):  *)
(* changes are gathered, sent after a while with the cookie of whoever is  *)
(* signed in then, and put back if the request fails, by when they may     *)
(* have been made again, or the account be another one. Changes are        *)
(* numbered; what the tab reads at sign-in is laid over the browser's own  *)
(* storage and is not part of this.                                        *)
(***************************************************************************)
EXTENDS Naturals, FiniteSets, Sequences

CONSTANTS
    Accounts,
    Prefs,      \* names of preferences
    Entries,       \* names of workspace entries, set or removed
    Nobody,
    MaxChanges, \* bound of the changes made
    MaxSends,   \* bound of the requests under way
    MaxTurns    \* bound of the sign-ins

ASSUME PrefsAssumption ==
    /\ Nobody \notin Accounts /\ Prefs \cap Entries = {}
    /\ MaxChanges \in Nat /\ MaxSends \in Nat /\ MaxTurns \in Nat

VARIABLES
    page,       \* signed in, signing out, or at the login
    who,        \* the account of the cookie
    tab,        \* the variables of the module
    sends,      \* the requests under way
    made,       \* history: the account that made each change so far
    newest,     \* history: the newest change of each name by the account of now, 0 where there is none
    got,        \* history: the changes the server has taken
    crossed     \* history: the names sent while an older change of theirs was still under way

prefVars == <<page, who, tab, sends, made, newest, got, crossed>>

Names == Prefs \cup Entries
Nothing == [k \in Names |-> 0]
Changes == [Names -> 0..MaxChanges]

\* `set` holds the preferences (dirty) and the entries (dirtyKeys.set); `remove` only entries.
Tab == [loadedFor : Accounts \cup {Nobody}, syncing : BOOLEAN, set : Changes, remove : Changes, pending : BOOLEAN,
        generation : 0..(2 * MaxTurns)]
Put == [of : {Prefs, Entries}, set : Changes, remove : Changes, sentFor : 0..(2 * MaxTurns), as : Accounts \cup {Nobody}]

PrefsTypeOK ==
    /\ page \in {"in", "leaving", "login"} /\ who \in Accounts \cup {Nobody}
    /\ tab \in Tab /\ \A k \in Names : tab.set[k] = 0 \/ tab.remove[k] = 0
    /\ sends \subseteq Put
    /\ Len(made) <= MaxChanges
    /\ newest \in Changes /\ got \subseteq 1..MaxChanges /\ crossed \subseteq Names

-----------------------------------------------------------------------------
\* The changes of some names only.
Only(names, c) == [k \in Names |-> IF k \in names THEN c[k] ELSE 0]
Without(c, d) == [k \in Names |-> IF d[k] # 0 THEN 0 ELSE c[k]]
Over(newer, older) == [k \in Names |-> IF newer[k] # 0 THEN newer[k] ELSE older[k]]
Has(c) == c # Nothing

\* send: what is gathered goes out, the preferences and the entries in a request each.
Request(t, names, to) ==
    [of |-> names, set |-> Only(names, t.set), remove |-> Only(names, t.remove), sentFor |-> t.generation, as |-> to]
Requests(t, to) == {s \in {Request(t, names, to) : names \in {Prefs, Entries}} : Has(s.set) \/ Has(s.remove)}
Emptied(t) == [t EXCEPT !.set = Nothing, !.remove = Nothing, !.pending = FALSE]

Carries(s, k) == s.set[k] # 0 \/ s.remove[k] # 0

Sends(t) ==
    /\ Cardinality(sends) + Cardinality(Requests(t, who)) <= MaxSends
    /\ sends' = sends \cup Requests(t, who)
    /\ tab' = Emptied(t)
    /\ crossed' = crossed \cup {k \in Names : (\E s \in sends : Carries(s, k)) /\ (\E s \in Requests(t, who) : Carries(s, k))}

\* A change is made by the account the tab has loaded; sharePreference and shareWorkspaceEntry.
Number == Len(made) + 1
Changed(k) ==
    /\ tab.syncing /\ Len(made) < MaxChanges
    /\ made' = Append(made, tab.loadedFor)
    /\ newest' = [newest EXCEPT ![k] = Number]

WithSet(k) == [tab EXCEPT !.set[k] = Number, !.remove[k] = 0, !.pending = TRUE]
WithRemoved(k) == [tab EXCEPT !.set[k] = 0, !.remove[k] = Number, !.pending = TRUE]

Share(k) ==
    /\ Changed(k)
    /\ tab' = WithSet(k)
    /\ UNCHANGED <<page, who, sends, got, crossed>>

Unshare(k) ==
    /\ k \in Entries
    /\ Changed(k)
    /\ tab' = WithRemoved(k)
    /\ UNCHANGED <<page, who, sends, got, crossed>>

\* sharePreferenceNow
ShareNow(k) ==
    /\ k \in Prefs
    /\ Changed(k)
    /\ Sends(WithSet(k))
    /\ UNCHANGED <<page, who, got>>

\* clearSharedPreferences: what was to be sent of it goes, and so does the timer.
Clear(k) ==
    /\ k \in Prefs /\ tab.syncing
    /\ tab' = [tab EXCEPT !.set[k] = 0, !.pending = FALSE]
    /\ newest' = [newest EXCEPT ![k] = 0]
    /\ UNCHANGED <<page, who, sends, made, got, crossed>>

Timer ==
    /\ tab.pending
    /\ Sends(tab)
    /\ UNCHANGED <<page, who, made, newest, got>>

(***************************************************************************)
(* The answers.                                                            *)
(***************************************************************************)
Taken(s) == {s.set[k] : k \in Names} \cup {s.remove[k] : k \in Names}

Arrives(s) ==
    /\ s.as # Nobody
    /\ got' = got \cup (Taken(s) \ {0})
    /\ UNCHANGED <<page, who, tab, made, newest, crossed>>

\* A request is answered.
Accepted(s) ==
    /\ s \in sends
    /\ Arrives(s)
    /\ sends' = sends \ {s}

\* Mutant: what failed is put back whoever is signed in.
BelongsAnyway(s) == TRUE

\* What failed goes out with the next one, behind what was changed meanwhile, unless the account is another by now.
Belongs(s) == s.sentFor = tab.generation

\* Mutant: what failed goes over what was changed since.
BackOnTop(s) == [tab EXCEPT !.set = Over(s.set, @), !.remove = Without(Over(s.remove, @), s.set)]

PutBack(s) ==
    [tab EXCEPT !.set = Without(Over(@, s.set), tab.remove), !.remove = Without(Over(@, s.remove), tab.set)]

\* The request fails: it never got there, or its answer did not.
Failed(s) ==
    /\ s \in sends
    /\ got' \in {got} \cup (IF s.as = Nobody THEN {} ELSE {got \cup (Taken(s) \ {0})})
    /\ sends' = sends \ {s}
    /\ tab' = IF Belongs(s) THEN PutBack(s) ELSE tab
    /\ UNCHANGED <<page, who, made, newest, crossed>>

(***************************************************************************)
(* The account.                                                            *)
(***************************************************************************)
Fresh(account) ==
    [loadedFor |-> account, syncing |-> account # Nobody, set |-> Nothing, remove |-> Nothing, pending |-> FALSE,
     generation |-> tab.generation + 1]

\* A sign-in, and loadAccountPreferences of the page that follows. The timer has fired by then: signing in takes longer.
SignIn(account) ==
    /\ page = "login" /\ ~tab.pending /\ tab.generation < 2 * MaxTurns - 1
    /\ page' = "in" /\ who' = account
    /\ IF tab.loadedFor = account THEN UNCHANGED <<tab, newest, crossed>>
       ELSE tab' = Fresh(account) /\ newest' = Nothing /\ crossed' = {}
    /\ UNCHANGED <<sends, made, got>>

\* The session ends on the server, and the page goes to the login.
Expires ==
    /\ page = "in"
    /\ page' = "login" /\ who' = Nobody
    /\ UNCHANGED <<tab, sends, made, newest, got, crossed>>

\* logout: the request first, and resetAccountPreferences once it is answered, even if it fails.
SignsOut ==
    /\ page = "in"
    /\ page' = "leaving" /\ who' \in {who, Nobody}
    /\ UNCHANGED <<tab, sends, made, newest, got, crossed>>

SignedOut ==
    /\ page = "leaving" /\ tab.generation < 2 * MaxTurns
    /\ page' = "login"
    /\ tab' = Fresh(Nobody)
    /\ newest' = Nothing /\ crossed' = {}
    /\ UNCHANGED <<who, sends, made, got>>

PrefsInit ==
    /\ page = "login" /\ who = Nobody
    /\ tab = [loadedFor |-> Nobody, syncing |-> FALSE, set |-> Nothing, remove |-> Nothing, pending |-> FALSE, generation |-> 0]
    /\ sends = {}
    /\ made = <<>> /\ newest = Nothing /\ got = {} /\ crossed = {}

PrefsNext ==
    \/ \E k \in Names : Share(k) \/ Unshare(k) \/ ShareNow(k) \/ Clear(k)
    \/ Timer
    \/ \E s \in sends : Accepted(s) \/ Failed(s)
    \/ \E account \in Accounts : SignIn(account)
    \/ Expires \/ SignsOut \/ SignedOut

PrefsSpec == PrefsInit /\ [][PrefsNext]_prefVars

-----------------------------------------------------------------------------
(***************************************************************************)
(* Properties.                                                             *)
(***************************************************************************)
\* Nothing an account changed goes out with the cookie of another one.
OwnCookieOnly ==
    \A s \in sends : s.as # Nobody => \A n \in Taken(s) \ {0} : made[n] = s.as

\* The newest change of a name is still to be sent, under way, or taken.
IsKept(k) ==
    \/ newest[k] \in {0, tab.set[k], tab.remove[k]} \cup got
    \/ \E s \in sends : newest[k] \in Taken(s)

\* A failed send keeps what it carried, however it mixes with what was changed meanwhile, as long as two sends of one
\* name do not overlap.
KeptUnlessCrossed == \A k \in Names \ crossed : IsKept(k)

\* account-prefs.ts, of a failed send: it keeps the change to go out with the next one, and whatever was changed again
\* meanwhile is newer than what failed to go out.
FailedSendKeepsChange == \A k \in Names : IsKept(k)
=============================================================================
