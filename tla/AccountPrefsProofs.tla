------------------------- MODULE AccountPrefsProofs -------------------------
(* What AccountPrefs keeps, for every number of accounts, of preferences and of changes. *)
EXTENDS AccountPrefs, TLAPS

(* A number that stands for no change, or for one of the account the tab has loaded. *)
OfTab(n) == n # 0 => n \in 1..Len(made) /\ made[n] = tab.loadedFor

(* One that a request carries: of the account of its cookie, and of the tab's as long as that is the same. *)
OfRequest(s, n) ==
    n # 0 => /\ n \in 1..Len(made)
             /\ s.as # Nobody => made[n] = s.as
             /\ s.sentFor = tab.generation => made[n] = tab.loadedFor

TabOwned == \A k \in Names : OfTab(tab.set[k]) /\ OfTab(tab.remove[k])

RequestsOwned ==
    \A s \in sends :
        /\ s.sentFor <= tab.generation
        /\ \A k \in Names : OfRequest(s, s.set[k]) /\ OfRequest(s, s.remove[k])

(* The tab gathers for the account it has loaded, and the cookie is of no other one as long as it does. *)
Cookie ==
    /\ tab.syncing <=> tab.loadedFor # Nobody
    /\ tab.loadedFor # Nobody => who \in {Nobody, tab.loadedFor}

PrefsTypes ==
    /\ who \in Accounts \cup {Nobody}
    /\ tab \in Tab /\ sends \subseteq Put
    /\ made \in Seq(Accounts) /\ Len(made) <= MaxChanges
    /\ newest \in Changes

OwnInv == PrefsTypes /\ TabOwned /\ RequestsOwned /\ Cookie

-----------------------------------------------------------------------------
(***************************************************************************)
(* The records.                                                            *)
(***************************************************************************)
LEMMA NothingType == Nothing \in Changes /\ \A k \in Names : Nothing[k] = 0
  BY PrefsAssumption DEF Nothing, Changes

LEMMA OnlyType ==
    ASSUME NEW c \in Changes, NEW names
    PROVE  Only(names, c) \in Changes /\ \A k \in Names : Only(names, c)[k] = IF k \in names THEN c[k] ELSE 0
  BY PrefsAssumption DEF Only, Changes

LEMMA RequestFields ==
    ASSUME NEW t \in Tab, NEW to \in Accounts \cup {Nobody}, NEW names \in {Prefs, Entries}
    PROVE  LET q == Request(t, names, to) IN
           /\ q \in Put
           /\ q.set = Only(names, t.set) /\ q.remove = Only(names, t.remove)
           /\ q.sentFor = t.generation /\ q.as = to /\ q.of = names
  <1>1. /\ t.set \in Changes /\ t.remove \in Changes /\ t.generation \in 0..(2 * MaxTurns)
    BY DEF Tab
  <1>2. Only(names, t.set) \in Changes /\ Only(names, t.remove) \in Changes
    BY <1>1, OnlyType
  <1>3. QED
    BY <1>1, <1>2 DEF Request, Put

LEMMA RequestsOf ==
    ASSUME NEW t \in Tab, NEW to \in Accounts \cup {Nobody}, NEW q \in Requests(t, to)
    PROVE  \E names \in {Prefs, Entries} : q = Request(t, names, to)
  BY DEF Requests

LEMMA EmptiedFields ==
    ASSUME NEW t \in Tab
    PROVE  LET e == Emptied(t) IN
           /\ e \in Tab
           /\ e.set = Nothing /\ e.remove = Nothing
           /\ e.loadedFor = t.loadedFor /\ e.syncing = t.syncing /\ e.generation = t.generation
  BY NothingType DEF Emptied, Tab

(* A tab in which the changes of one name are others. *)
Gathered(t, k, n, m) == [t EXCEPT !.set[k] = n, !.remove[k] = m, !.pending = TRUE]

LEMMA GatheredFields ==
    ASSUME NEW t \in Tab, NEW k \in Names, NEW n \in 0..MaxChanges, NEW m \in 0..MaxChanges
    PROVE  LET e == Gathered(t, k, n, m) IN
           /\ e \in Tab
           /\ e.set = [t.set EXCEPT ![k] = n] /\ e.remove = [t.remove EXCEPT ![k] = m]
           /\ e.loadedFor = t.loadedFor /\ e.syncing = t.syncing /\ e.generation = t.generation
  <1>1. [t.set EXCEPT ![k] = n] \in Changes /\ [t.remove EXCEPT ![k] = m] \in Changes
    BY DEF Tab, Changes
  <1>2. QED
    BY <1>1 DEF Tab, Gathered

LEMMA ClearedFields ==
    ASSUME NEW t \in Tab, NEW k \in Names
    PROVE  LET e == [t EXCEPT !.set[k] = 0, !.pending = FALSE] IN
           /\ e \in Tab
           /\ e.set = [t.set EXCEPT ![k] = 0] /\ e.remove = t.remove
           /\ e.loadedFor = t.loadedFor /\ e.syncing = t.syncing /\ e.generation = t.generation
  <1>1. [t.set EXCEPT ![k] = 0] \in Changes
    BY PrefsAssumption DEF Tab, Changes
  <1>2. QED
    BY <1>1 DEF Tab

LEMMA MixedType ==
    ASSUME NEW c \in Changes, NEW d \in Changes, NEW x \in Changes
    PROVE  /\ Without(Over(c, d), x) \in Changes
           /\ \A k \in Names : Without(Over(c, d), x)[k] = IF x[k] # 0 THEN 0 ELSE IF c[k] # 0 THEN c[k] ELSE d[k]
  <1>1. Over(c, d) \in Changes /\ \A k \in Names : Over(c, d)[k] = IF c[k] # 0 THEN c[k] ELSE d[k]
    BY DEF Over, Changes
  <1>2. QED
    BY <1>1, PrefsAssumption DEF Without, Changes

LEMMA PutBackFields ==
    ASSUME tab \in Tab, NEW s \in Put
    PROVE  LET e == PutBack(s) IN
           /\ e \in Tab
           /\ e.set = Without(Over(tab.set, s.set), tab.remove)
           /\ e.remove = Without(Over(tab.remove, s.remove), tab.set)
           /\ e.loadedFor = tab.loadedFor /\ e.syncing = tab.syncing /\ e.generation = tab.generation
  <1>1. tab.set \in Changes /\ tab.remove \in Changes /\ s.set \in Changes /\ s.remove \in Changes
    BY DEF Tab, Put
  <1>2. Without(Over(tab.set, s.set), tab.remove) \in Changes /\ Without(Over(tab.remove, s.remove), tab.set) \in Changes
    BY <1>1, MixedType
  <1>3. QED
    BY <1>2 DEF PutBack, Tab

LEMMA FreshFields ==
    ASSUME tab \in Tab, tab.generation < 2 * MaxTurns, NEW account \in Accounts \cup {Nobody}
    PROVE  LET e == Fresh(account) IN
           /\ e \in Tab
           /\ e.set = Nothing /\ e.remove = Nothing
           /\ e.loadedFor = account /\ e.syncing = (account # Nobody) /\ e.generation = tab.generation + 1
  <1>1. tab.generation \in 0..(2 * MaxTurns)
    BY DEF Tab
  <1>2. tab.generation + 1 \in 0..(2 * MaxTurns)
    BY <1>1, PrefsAssumption
  <1>3. QED
    BY <1>2, NothingType DEF Fresh, Tab

-----------------------------------------------------------------------------
(***************************************************************************)
(* Whose changes go out.                                                   *)
(***************************************************************************)
(* Changes already made keep their account while others are made. *)
MadeGoesOn ==
    /\ made' \in Seq(Accounts) /\ Len(made') <= MaxChanges
    /\ Len(made) <= Len(made') /\ \A n \in 1..Len(made) : made'[n] = made[n]

SameAccount(t) == t.loadedFor = tab.loadedFor /\ t.syncing = tab.syncing /\ t.generation = tab.generation

LEMMA InitOwn == PrefsInit => OwnInv
  <1> SUFFICES ASSUME PrefsInit PROVE OwnInv
    OBVIOUS
  <1>1. tab \in Tab
    BY NothingType, PrefsAssumption DEF PrefsInit, Tab
  <1>2. made = <<>> /\ made \in Seq(Accounts) /\ Len(made) = 0
    BY DEF PrefsInit
  <1>3. PrefsTypes
    BY <1>1, <1>2, NothingType, PrefsAssumption DEF PrefsInit, PrefsTypes
  <1>4. TabOwned /\ RequestsOwned /\ Cookie
    BY NothingType DEF PrefsInit, TabOwned, OfTab, RequestsOwned, Cookie
  <1>5. QED
    BY <1>3, <1>4 DEF OwnInv

LEMMA MoreMade ==
    ASSUME OwnInv, MadeGoesOn
    PROVE  /\ \A k \in Names : \A n \in {tab.set[k], tab.remove[k]} :
                 n # 0 => n \in 1..Len(made') /\ made'[n] = tab.loadedFor
           /\ \A s \in sends : \A k \in Names : \A n \in {s.set[k], s.remove[k]} :
                 n # 0 => /\ n \in 1..Len(made')
                          /\ s.as # Nobody => made'[n] = s.as
                          /\ s.sentFor = tab.generation => made'[n] = tab.loadedFor
  <1>1. Len(made) \in Nat /\ Len(made') \in Nat /\ Len(made) <= Len(made') /\ \A n \in 1..Len(made) : made'[n] = made[n]
    BY DEF OwnInv, PrefsTypes, MadeGoesOn
  <1>2. \A n \in 1..Len(made) : n \in 1..Len(made')
    BY <1>1
  <1>3. QED
    BY <1>1, <1>2 DEF OwnInv, TabOwned, OfTab, RequestsOwned, OfRequest

(* A step that only gathers changes. *)
LEMMA GathersOwn ==
    ASSUME OwnInv, MadeGoesOn, tab' \in Tab, SameAccount(tab'), newest' \in Changes, sends' \subseteq sends, who' = who,
           \A k \in Names : \A n \in {tab'.set[k], tab'.remove[k]} : n # 0 => n \in 1..Len(made') /\ made'[n] = tab.loadedFor
    PROVE  OwnInv'
  <1>1. PrefsTypes'
    BY DEF OwnInv, PrefsTypes, MadeGoesOn
  <1>2. TabOwned'
    BY DEF TabOwned, OfTab, SameAccount
  <1>3. RequestsOwned'
    BY MoreMade DEF OwnInv, RequestsOwned, OfRequest, SameAccount
  <1>4. Cookie'
    BY DEF OwnInv, Cookie, SameAccount
  <1>5. QED
    BY <1>1, <1>2, <1>3, <1>4 DEF OwnInv

(* What a send takes along is of the account loaded, and the cookie of that account or of nobody. *)
LEMMA SendsOwn ==
    ASSUME OwnInv, MadeGoesOn, NEW t \in Tab, SameAccount(t), newest' \in Changes, who' = who, Sends(t),
           \A k \in Names : \A n \in {t.set[k], t.remove[k]} : n # 0 => n \in 1..Len(made') /\ made'[n] = tab.loadedFor
    PROVE  OwnInv'
  <1>1. sends' = sends \cup Requests(t, who) /\ tab' = Emptied(t)
    BY DEF Sends
  <1>2. /\ tab' \in Tab /\ tab'.set = Nothing /\ tab'.remove = Nothing
        /\ tab'.loadedFor = tab.loadedFor /\ tab'.syncing = tab.syncing /\ tab'.generation = tab.generation
    BY <1>1, EmptiedFields DEF SameAccount
  <1>3. who \in Accounts \cup {Nobody}
    BY DEF OwnInv, PrefsTypes
  <1>4. ASSUME NEW q \in Requests(t, who)
        PROVE  /\ q \in Put /\ q.sentFor = tab.generation /\ q.as = who
               /\ \A k \in Names : q.set[k] \in {0, t.set[k]} /\ q.remove[k] \in {0, t.remove[k]}
    <2>1. PICK names \in {Prefs, Entries} : q = Request(t, names, who)
      BY <1>3, RequestsOf
    <2>2. /\ q \in Put /\ q.sentFor = tab.generation /\ q.as = who
          /\ q.set = Only(names, t.set) /\ q.remove = Only(names, t.remove)
      BY <1>3, <2>1, RequestFields DEF SameAccount
    <2>3. t.set \in Changes /\ t.remove \in Changes
      BY DEF Tab
    <2>4. QED
      BY <2>2, <2>3, OnlyType
  <1>5. PrefsTypes'
    BY <1>1, <1>2, <1>4 DEF OwnInv, PrefsTypes, MadeGoesOn
  <1>6. TabOwned'
    BY <1>2, NothingType DEF TabOwned, OfTab
  <1>7. RequestsOwned'
    <2>1. ASSUME NEW s \in sends
          PROVE  /\ s.sentFor <= tab'.generation
                 /\ \A k \in Names : OfRequest(s, s.set[k])' /\ OfRequest(s, s.remove[k])'
      BY <1>2, MoreMade DEF OwnInv, RequestsOwned, OfRequest
    <2>2. ASSUME NEW s \in Requests(t, who)
          PROVE  /\ s.sentFor <= tab'.generation
                 /\ \A k \in Names : OfRequest(s, s.set[k])' /\ OfRequest(s, s.remove[k])'
      <3>1. ASSUME NEW k \in Names, NEW n \in {s.set[k], s.remove[k]}, n # 0
            PROVE  n \in 1..Len(made') /\ made'[n] = tab.loadedFor /\ (who # Nobody => who = tab.loadedFor)
        <4>1. n \in {t.set[k], t.remove[k]}
          BY <1>4, <3>1
        <4>2. n \in 1..Len(made') /\ made'[n] = tab.loadedFor
          BY <3>1, <4>1
        <4>3. made'[n] \in Accounts
          BY <4>2 DEF MadeGoesOn
        <4>4. tab.loadedFor # Nobody
          BY <4>2, <4>3, PrefsAssumption
        <4>5. QED
          BY <4>2, <4>4 DEF OwnInv, Cookie
      <3>2. tab.generation \in 0..(2 * MaxTurns)
        BY DEF OwnInv, PrefsTypes, Tab
      <3>3. s.sentFor <= tab'.generation
        BY <1>2, <1>4, <3>2, PrefsAssumption
      <3>4. QED
        BY <1>2, <1>4, <3>1, <3>3 DEF OfRequest
    <2>3. QED
      BY <1>1, <2>1, <2>2 DEF RequestsOwned
  <1>8. Cookie'
    BY <1>2 DEF OwnInv, Cookie
  <1>9. QED
    BY <1>5, <1>6, <1>7, <1>8 DEF OwnInv

(* Another account, or nobody: what was gathered is gone, and nothing sent before counts as of this one. *)
LEMMA FreshOwn ==
    ASSUME OwnInv, NEW account \in Accounts \cup {Nobody}, tab.generation < 2 * MaxTurns, tab' = Fresh(account),
           newest' \in Changes, sends' = sends, made' = made, who' \in Accounts \cup {Nobody},
           account # Nobody => who' \in {Nobody, account}
    PROVE  OwnInv'
  <1>1. /\ tab' \in Tab /\ tab'.set = Nothing /\ tab'.remove = Nothing
        /\ tab'.loadedFor = account /\ tab'.syncing = (account # Nobody) /\ tab'.generation = tab.generation + 1
    BY FreshFields DEF OwnInv, PrefsTypes
  <1>2. PrefsTypes'
    BY <1>1 DEF OwnInv, PrefsTypes
  <1>3. TabOwned'
    BY <1>1, NothingType DEF TabOwned, OfTab
  <1>4. Cookie'
    BY <1>1 DEF Cookie
  <1>5. RequestsOwned'
    <2>1. ASSUME NEW s \in sends PROVE s.sentFor \in Nat /\ s.sentFor <= tab.generation /\ tab.generation \in Nat
      <3>1. s.sentFor \in 0..(2 * MaxTurns) /\ tab.generation \in 0..(2 * MaxTurns)
        BY DEF OwnInv, PrefsTypes, Put, Tab
      <3>2. QED
        BY <3>1, PrefsAssumption DEF OwnInv, RequestsOwned
    <2>2. \A s \in sends : s.sentFor <= tab'.generation /\ s.sentFor # tab'.generation
      BY <1>1, <2>1
    <2>3. QED
      BY <2>2 DEF OwnInv, RequestsOwned, OfRequest
  <1>6. QED
    BY <1>2, <1>3, <1>4, <1>5 DEF OwnInv

LEMMA NumberMade ==
    ASSUME OwnInv, NEW k \in Names, Changed(k)
    PROVE  /\ MadeGoesOn /\ newest' \in Changes
           /\ Number \in 1..MaxChanges /\ Number \in 1..Len(made') /\ made'[Number] = tab.loadedFor
           /\ newest' = [newest EXCEPT ![k] = Number]
  <1>1. /\ tab.syncing /\ Len(made) < MaxChanges /\ made' = Append(made, tab.loadedFor)
        /\ newest' = [newest EXCEPT ![k] = Number]
    BY DEF Changed
  <1>2. tab.loadedFor \in Accounts
    BY <1>1 DEF OwnInv, Cookie, PrefsTypes, Tab
  <1>3. made \in Seq(Accounts) /\ Len(made) \in Nat
    BY DEF OwnInv, PrefsTypes
  <1>4. /\ made' \in Seq(Accounts) /\ Len(made') = Len(made) + 1
        /\ \A n \in 1..Len(made) : made'[n] = made[n]
        /\ made'[Len(made) + 1] = tab.loadedFor
    BY <1>1, <1>2, <1>3
  <1>5. Number \in 1..MaxChanges
    BY <1>1, <1>3, PrefsAssumption DEF Number
  <1>6. MadeGoesOn
    BY <1>1, <1>3, <1>4, PrefsAssumption DEF MadeGoesOn
  <1>7. newest' \in Changes
    BY <1>1, <1>5 DEF OwnInv, PrefsTypes, Changes
  <1>8. QED
    BY <1>1, <1>3, <1>4, <1>5, <1>6, <1>7 DEF Number

(* A change joins what is gathered. *)
LEMMA JoinedOwn ==
    ASSUME OwnInv, NEW k \in Names, Changed(k), NEW n \in {0, Number}, NEW m \in {0, Number}
    PROVE  LET t == Gathered(tab, k, n, m) IN
           /\ t \in Tab /\ SameAccount(t)
           /\ \A j \in Names : \A v \in {t.set[j], t.remove[j]} : v # 0 => v \in 1..Len(made') /\ made'[v] = tab.loadedFor
  <1> DEFINE t == Gathered(tab, k, n, m)
  <1>1. MadeGoesOn /\ Number \in 1..MaxChanges /\ Number \in 1..Len(made') /\ made'[Number] = tab.loadedFor
    BY NumberMade
  <1>2. n \in 0..MaxChanges /\ m \in 0..MaxChanges /\ tab \in Tab
    BY <1>1, PrefsAssumption DEF OwnInv, PrefsTypes
  <1>2a. /\ t \in Tab
         /\ t.set = [tab.set EXCEPT ![k] = n] /\ t.remove = [tab.remove EXCEPT ![k] = m]
         /\ t.loadedFor = tab.loadedFor /\ t.syncing = tab.syncing /\ t.generation = tab.generation
    BY <1>2, GatheredFields
  <1> HIDE DEF t
  <1>3. /\ t \in Tab /\ SameAccount(t)
        /\ t.set = [tab.set EXCEPT ![k] = n] /\ t.remove = [tab.remove EXCEPT ![k] = m]
    BY <1>2a DEF SameAccount
  <1>4. tab.set \in Changes /\ tab.remove \in Changes
    BY <1>2 DEF Tab
  <1>5. ASSUME NEW j \in Names, NEW v \in {t.set[j], t.remove[j]}, v # 0
        PROVE  v \in 1..Len(made') /\ made'[v] = tab.loadedFor
    <2>1. v \in {tab.set[j], tab.remove[j], Number}
      BY <1>3, <1>4, <1>5 DEF Changes
    <2>2. QED
      BY <1>1, <1>5, <2>1, MoreMade
  <1>6. QED
    BY <1>3, <1>5 DEF t

LEMMA NextOwn == OwnInv /\ [PrefsNext]_prefVars => OwnInv'
  <1> SUFFICES ASSUME OwnInv, [PrefsNext]_prefVars PROVE OwnInv'
    OBVIOUS
  <1>1. /\ tab \in Tab /\ sends \subseteq Put /\ newest \in Changes /\ who \in Accounts \cup {Nobody}
        /\ made \in Seq(Accounts) /\ Len(made) <= MaxChanges /\ Len(made) \in Nat
    BY DEF OwnInv, PrefsTypes
  <1>2. tab.set \in Changes /\ tab.remove \in Changes /\ tab.generation \in 0..(2 * MaxTurns)
    BY <1>1 DEF Tab
  <1>3. made' = made => MadeGoesOn
    BY <1>1 DEF MadeGoesOn
  <1>4. \A k \in Names : \A n \in {tab.set[k], tab.remove[k]} : n # 0 => n \in 1..Len(made) /\ made[n] = tab.loadedFor
    BY DEF OwnInv, TabOwned, OfTab
  <1>5. ASSUME NEW k \in Names, Share(k) PROVE OwnInv'
    <2>1. Changed(k) /\ tab' = WithSet(k) /\ who' = who /\ sends' = sends
      BY <1>5 DEF Share
    <2> DEFINE t == WithSet(k)
    <2>1a. t \in Tab /\ SameAccount(t)
           /\ \A j \in Names : \A v \in {t.set[j], t.remove[j]} : v # 0 => v \in 1..Len(made') /\ made'[v] = tab.loadedFor
      BY <2>1, JoinedOwn DEF WithSet, Gathered
    <2> HIDE DEF t
    <2>2. tab' \in Tab /\ SameAccount(tab')
          /\ \A j \in Names : \A v \in {tab'.set[j], tab'.remove[j]} : v # 0 => v \in 1..Len(made') /\ made'[v] = tab.loadedFor
      <3>1. tab' = t
        BY <2>1 DEF t
      <3>2. QED
        BY <3>1, <2>1a DEF SameAccount
    <2>3. QED
      BY <2>1, <2>2, NumberMade, GathersOwn
  <1>6. ASSUME NEW k \in Names, Unshare(k) PROVE OwnInv'
    <2>1. Changed(k) /\ tab' = WithRemoved(k) /\ who' = who /\ sends' = sends
      BY <1>6 DEF Unshare
    <2> DEFINE t == WithRemoved(k)
    <2>1a. t \in Tab /\ SameAccount(t)
           /\ \A j \in Names : \A v \in {t.set[j], t.remove[j]} : v # 0 => v \in 1..Len(made') /\ made'[v] = tab.loadedFor
      BY <2>1, JoinedOwn DEF WithRemoved, Gathered
    <2> HIDE DEF t
    <2>2. tab' \in Tab /\ SameAccount(tab')
          /\ \A j \in Names : \A v \in {tab'.set[j], tab'.remove[j]} : v # 0 => v \in 1..Len(made') /\ made'[v] = tab.loadedFor
      <3>1. tab' = t
        BY <2>1 DEF t
      <3>2. QED
        BY <3>1, <2>1a DEF SameAccount
    <2>3. QED
      BY <2>1, <2>2, NumberMade, GathersOwn
  <1>7. ASSUME NEW k \in Names, ShareNow(k) PROVE OwnInv'
    <2>1. Changed(k) /\ Sends(WithSet(k)) /\ who' = who
      BY <1>7 DEF ShareNow
    <2>2. WithSet(k) \in Tab /\ SameAccount(WithSet(k))
          /\ \A j \in Names : \A v \in {WithSet(k).set[j], WithSet(k).remove[j]} : v # 0 => v \in 1..Len(made') /\ made'[v] = tab.loadedFor
      BY <2>1, JoinedOwn DEF WithSet, Gathered
    <2>3. QED
      BY <2>1, <2>2, NumberMade, SendsOwn
  <1>8. ASSUME NEW k \in Names, Clear(k) PROVE OwnInv'
    <2>1. /\ tab' = [tab EXCEPT !.set[k] = 0, !.pending = FALSE] /\ newest' = [newest EXCEPT ![k] = 0]
          /\ who' = who /\ sends' = sends /\ made' = made
      BY <1>8 DEF Clear
    <2>2. /\ tab' \in Tab /\ SameAccount(tab')
          /\ tab'.set = [tab.set EXCEPT ![k] = 0] /\ tab'.remove = tab.remove
      BY <1>1, <2>1, ClearedFields DEF SameAccount
    <2>3. newest' \in Changes
      BY <1>1, <2>1, PrefsAssumption DEF Changes
    <2>4. \A j \in Names : \A v \in {tab'.set[j], tab'.remove[j]} : v # 0 => v \in {tab.set[j], tab.remove[j]}
      BY <1>2, <2>2 DEF Changes
    <2>5. QED
      BY <1>3, <1>4, <2>1, <2>2, <2>3, <2>4, GathersOwn
  <1>9. ASSUME Timer PROVE OwnInv'
    <2>1. Sends(tab) /\ who' = who /\ made' = made /\ newest' = newest
      BY <1>9 DEF Timer
    <2>2. QED
      BY <1>1, <1>3, <1>4, <2>1, SendsOwn DEF SameAccount
  <1>10. ASSUME NEW s \in sends, Accepted(s) PROVE OwnInv'
    <2>1. tab' = tab /\ sends' = sends \ {s} /\ who' = who /\ made' = made /\ newest' = newest
      BY <1>10 DEF Accepted, Arrives
    <2>2. QED
      BY <1>1, <1>3, <1>4, <2>1, GathersOwn DEF SameAccount
  <1>11. ASSUME NEW s \in sends, Failed(s) PROVE OwnInv'
    <2>1. /\ tab' = IF Belongs(s) THEN PutBack(s) ELSE tab
          /\ sends' = sends \ {s} /\ who' = who /\ made' = made /\ newest' = newest
      BY <1>11 DEF Failed
    <2>2. CASE ~Belongs(s)
      BY <1>1, <1>3, <1>4, <2>1, <2>2, GathersOwn DEF SameAccount
    <2>3. CASE Belongs(s)
      <3>1. /\ tab' \in Tab /\ SameAccount(tab')
            /\ tab'.set = Without(Over(tab.set, s.set), tab.remove)
            /\ tab'.remove = Without(Over(tab.remove, s.remove), tab.set)
        BY <1>1, <2>1, <2>3, PutBackFields DEF SameAccount
      <3>2. s.set \in Changes /\ s.remove \in Changes
        BY <1>1 DEF Put
      <3>3. ASSUME NEW k \in Names, NEW n \in {tab'.set[k], tab'.remove[k]}, n # 0
            PROVE  n \in 1..Len(made) /\ made[n] = tab.loadedFor
        <4>1. n \in {tab.set[k], tab.remove[k], s.set[k], s.remove[k]}
          BY <1>2, <3>1, <3>2, <3>3, MixedType
        <4>2. \A m \in {s.set[k], s.remove[k]} : m # 0 => m \in 1..Len(made) /\ made[m] = tab.loadedFor
          BY <2>3 DEF OwnInv, RequestsOwned, OfRequest, Belongs
        <4>3. QED
          BY <1>4, <3>3, <4>1, <4>2
      <3>4. QED
        BY <1>1, <1>3, <2>1, <3>1, <3>3, GathersOwn
    <2>4. QED
      BY <2>2, <2>3
  <1>12. ASSUME NEW account \in Accounts, SignIn(account) PROVE OwnInv'
    <2>1. /\ tab.generation < 2 * MaxTurns - 1 /\ who' = account /\ sends' = sends /\ made' = made
          /\ IF tab.loadedFor = account THEN tab' = tab /\ newest' = newest
             ELSE tab' = Fresh(account) /\ newest' = Nothing
      BY <1>12 DEF SignIn
    <2>2. CASE tab.loadedFor = account
      BY <2>1, <2>2 DEF OwnInv, PrefsTypes, TabOwned, OfTab, RequestsOwned, OfRequest, Cookie
    <2>3. CASE tab.loadedFor # account
      <3>1. tab.generation < 2 * MaxTurns
        BY <1>2, <2>1, PrefsAssumption
      <3>2. QED
        BY <2>1, <2>3, <3>1, NothingType, FreshOwn
    <2>4. QED
      BY <2>2, <2>3
  <1>13. ASSUME Expires \/ SignsOut PROVE OwnInv'
    <2>1. tab' = tab /\ sends' = sends /\ made' = made /\ newest' = newest /\ who' \in {who, Nobody}
      BY <1>13 DEF Expires, SignsOut
    <2>2. QED
      BY <2>1 DEF OwnInv, PrefsTypes, TabOwned, OfTab, RequestsOwned, OfRequest, Cookie
  <1>14. ASSUME SignedOut PROVE OwnInv'
    <2>1. /\ tab.generation < 2 * MaxTurns /\ tab' = Fresh(Nobody) /\ newest' = Nothing
          /\ who' = who /\ sends' = sends /\ made' = made
      BY <1>14 DEF SignedOut
    <2>2. QED
      BY <1>1, <2>1, NothingType, FreshOwn
  <1>15. CASE UNCHANGED prefVars
    BY <1>15 DEF prefVars, OwnInv, PrefsTypes, TabOwned, OfTab, RequestsOwned, OfRequest, Cookie
  <1>16. QED
    BY <1>5, <1>6, <1>7, <1>8, <1>9, <1>10, <1>11, <1>12, <1>13, <1>14, <1>15 DEF PrefsNext

LEMMA OwnInvariant == PrefsSpec => []OwnInv
  BY InitOwn, NextOwn, PTL DEF PrefsSpec

(* account-prefs.ts: whoever signs out and in while changes wait, are under way or are put back, nothing an account
   changed goes out with the cookie of another one. *)
THEOREM NoForeignCookie == PrefsSpec => []OwnCookieOnly
  <1>1. ASSUME OwnInv PROVE OwnCookieOnly
    <2>1. ASSUME NEW s \in sends, s.as # Nobody, NEW n \in Taken(s) \ {0} PROVE made[n] = s.as
      <3>1. PICK k \in Names : n \in {s.set[k], s.remove[k]}
        BY <2>1 DEF Taken
      <3>2. QED
        BY <1>1, <2>1, <3>1 DEF OwnInv, RequestsOwned, OfRequest
    <2>2. QED
      BY <2>1 DEF OwnCookieOnly
  <1>2. QED
    BY <1>1, OwnInvariant, PTL

-----------------------------------------------------------------------------
(***************************************************************************)
(* What a failed send keeps.                                               *)
(***************************************************************************)
OfThisPage(s) == s.sentFor = tab.generation

(* A name is set or removed, never both: in the tab, and in a request. *)
OneOrOther ==
    /\ \A k \in Names : tab.set[k] = 0 \/ tab.remove[k] = 0
    /\ \A s \in sends : \A k \in Names : s.set[k] = 0 \/ s.remove[k] = 0

(* One request at most has the name. *)
SentOnce(k) == \A s, t \in sends : OfThisPage(s) /\ OfThisPage(t) /\ Carries(s, k) /\ Carries(t, k) => s = t

InTab(t, n, k) == n \in {t.set[k], t.remove[k]}

(* The tab has nothing older than the newest change; neither has the request, unless the tab has that one itself. *)
NothingOlder(t, n, k) ==
    /\ t.set[k] \in {0, n} /\ t.remove[k] \in {0, n}
    /\ \A s \in sends : OfThisPage(s) /\ ~InTab(t, n, k) => s.set[k] \in {0, n} /\ s.remove[k] \in {0, n}

(* It is in the tab, in a request that would put it back, or taken. *)
Somewhere(t, n, k) ==
    \/ InTab(t, n, k)
    \/ n \in got
    \/ \E s \in sends : OfThisPage(s) /\ n \in {s.set[k], s.remove[k]}

KeptIn(t, n, k) == n # 0 => NothingOlder(t, n, k) /\ Somewhere(t, n, k)

KeptInv ==
    /\ OneOrOther
    /\ \A k \in Names \ crossed : SentOnce(k) /\ KeptIn(tab, newest[k], k)

LEMMA InitKept == PrefsInit => KeptInv
  BY NothingType DEF PrefsInit, KeptInv, OneOrOther, SentOnce, KeptIn

(* Of a name that is left alone, all stays as it was. *)
LEMMA AloneKept ==
    ASSUME NEW k \in Names, SentOnce(k), KeptIn(tab, newest[k], k),
           tab'.set[k] = tab.set[k], tab'.remove[k] = tab.remove[k], tab'.generation = tab.generation,
           newest'[k] = newest[k], sends' = sends, got \subseteq got'
    PROVE  (SentOnce(k) /\ KeptIn(tab, newest[k], k))'
  BY DEF SentOnce, KeptIn, NothingOlder, Somewhere, InTab, OfThisPage, Carries

(* A change the tab gathers is the newest of its name. *)
LEMMA GathersKept ==
    ASSUME OwnInv, KeptInv, NEW k \in Names, Changed(k), NEW n \in {0, Number}, NEW m \in {0, Number},
           n = 0 <=> m # 0, NEW t, t = Gathered(tab, k, n, m)
    PROVE  /\ t \in Tab /\ t.generation = tab.generation
           /\ \A j \in Names : t.set[j] = 0 \/ t.remove[j] = 0
           /\ \A j \in Names \ crossed : KeptIn(t, newest'[j], j)
           /\ \A j \in Names \ {k} : t.set[j] = tab.set[j] /\ t.remove[j] = tab.remove[j] /\ newest'[j] = newest[j]
  <1>1. /\ tab \in Tab /\ newest \in Changes /\ tab.set \in Changes /\ tab.remove \in Changes
    BY DEF OwnInv, PrefsTypes, Tab
  <1>2. Number \in 1..MaxChanges /\ newest' = [newest EXCEPT ![k] = Number]
    BY NumberMade
  <1>3. n \in 0..MaxChanges /\ m \in 0..MaxChanges
    BY <1>2, PrefsAssumption
  <1>4. /\ t \in Tab /\ t.generation = tab.generation
        /\ t.set = [tab.set EXCEPT ![k] = n] /\ t.remove = [tab.remove EXCEPT ![k] = m]
    BY <1>1, <1>3, GatheredFields
  <1>5. /\ t.set[k] = n /\ t.remove[k] = m /\ newest'[k] = Number
        /\ \A j \in Names \ {k} : t.set[j] = tab.set[j] /\ t.remove[j] = tab.remove[j] /\ newest'[j] = newest[j]
    BY <1>1, <1>2, <1>4 DEF Changes
  <1>6. \A j \in Names : t.set[j] = 0 \/ t.remove[j] = 0
    BY <1>5 DEF KeptInv, OneOrOther
  <1>7. KeptIn(t, newest'[k], k)
    BY <1>2, <1>5 DEF KeptIn, NothingOlder, Somewhere, InTab
  <1>8. \A j \in Names \ crossed : j # k => KeptIn(t, newest'[j], j)
    BY <1>5 DEF KeptInv, KeptIn, NothingOlder, Somewhere, InTab
  <1>9. QED
    BY <1>4, <1>5, <1>6, <1>7, <1>8

LEMMA GatheredKept ==
    ASSUME OwnInv, KeptInv, NEW k \in Names, Changed(k), NEW n \in {0, Number}, NEW m \in {0, Number},
           n = 0 <=> m # 0, tab' = Gathered(tab, k, n, m), sends' = sends, got' = got, crossed' = crossed
    PROVE  KeptInv'
  <1>1. /\ tab' \in Tab /\ tab'.generation = tab.generation
        /\ \A j \in Names : tab'.set[j] = 0 \/ tab'.remove[j] = 0
        /\ \A j \in Names \ crossed : KeptIn(tab', newest'[j], j)
    BY GathersKept
  <1>2. OneOrOther'
    BY <1>1 DEF KeptInv, OneOrOther
  <1>3. ASSUME NEW j \in Names \ crossed PROVE SentOnce(j)' /\ KeptIn(tab, newest[j], j)'
    BY <1>1 DEF KeptInv, SentOnce, KeptIn, NothingOlder, Somewhere, InTab, OfThisPage, Carries
  <1>4. QED
    BY <1>2, <1>3 DEF KeptInv

(* What goes out of a tab is in one request that would bring it back. *)
LEMMA SendsKept ==
    ASSUME OwnInv, KeptInv, NEW t \in Tab, t.generation = tab.generation, Sends(t), got' = got,
           \A j \in Names : t.set[j] = 0 \/ t.remove[j] = 0,
           \A j \in Names \ crossed : KeptIn(t, newest'[j], j)
    PROVE  KeptInv'
  <1>1. /\ sends' = sends \cup Requests(t, who) /\ tab' = Emptied(t)
        /\ crossed' = crossed \cup {k \in Names : (\E s \in sends : Carries(s, k)) /\ (\E s \in Requests(t, who) : Carries(s, k))}
    BY DEF Sends
  <1>2. tab'.set = Nothing /\ tab'.remove = Nothing /\ tab'.generation = tab.generation
    BY <1>1, EmptiedFields
  <1>3. who \in Accounts \cup {Nobody} /\ t.set \in Changes /\ t.remove \in Changes
    BY DEF OwnInv, PrefsTypes, Tab
  <1>4. ASSUME NEW q \in Requests(t, who)
        PROVE  \E names \in {Prefs, Entries} :
                   /\ q = Request(t, names, who) /\ q.sentFor = tab.generation
                   /\ \A k \in Names : /\ q.set[k] = IF k \in names THEN t.set[k] ELSE 0
                                       /\ q.remove[k] = IF k \in names THEN t.remove[k] ELSE 0
    <2>1. PICK names \in {Prefs, Entries} : q = Request(t, names, who)
      BY <1>3, RequestsOf
    <2>2. q.sentFor = tab.generation /\ q.set = Only(names, t.set) /\ q.remove = Only(names, t.remove)
      BY <1>3, <2>1, RequestFields
    <2>3. QED
      BY <1>3, <2>1, <2>2, OnlyType
  <1>5. ASSUME NEW k \in Names, t.set[k] # 0 \/ t.remove[k] # 0
        PROVE  \E q \in Requests(t, who) : q.set[k] = t.set[k] /\ q.remove[k] = t.remove[k]
    <2>1. PICK names \in {Prefs, Entries} : k \in names
      BY DEF Names
    <2> DEFINE q == Request(t, names, who)
    <2>2. q.set = Only(names, t.set) /\ q.remove = Only(names, t.remove)
      BY <1>3, RequestFields
    <2>3. q.set[k] = t.set[k] /\ q.remove[k] = t.remove[k]
      BY <1>3, <2>1, <2>2, OnlyType
    <2>4. Has(q.set) \/ Has(q.remove)
      BY <1>5, <2>3, NothingType DEF Has
    <2>5. q \in Requests(t, who)
      BY <2>4 DEF Requests
    <2>6. QED
      BY <2>3, <2>5
  <1>6. OneOrOther'
    <2>1. \A q \in Requests(t, who) : \A k \in Names : q.set[k] = 0 \/ q.remove[k] = 0
      BY <1>4
    <2>2. QED
      BY <1>1, <1>2, <2>1, NothingType DEF KeptInv, OneOrOther
  <1>7. ASSUME NEW k \in Names, k \notin crossed' PROVE SentOnce(k)'
    <2>1. k \notin crossed /\ ~((\E s \in sends : Carries(s, k)) /\ (\E s \in Requests(t, who) : Carries(s, k)))
      BY <1>1, <1>7
    <2>2. ASSUME NEW s \in sends', NEW r \in sends', OfThisPage(s)', OfThisPage(r)', Carries(s, k), Carries(r, k) PROVE s = r
      <3>1. OfThisPage(s) /\ OfThisPage(r)
        BY <1>2, <2>2 DEF OfThisPage
      <3>2. CASE s \in sends /\ r \in sends
        BY <2>1, <2>2, <3>1, <3>2 DEF KeptInv, SentOnce
      <3>3. CASE s \in Requests(t, who) /\ r \in Requests(t, who)
        <4>1. PICK a \in {Prefs, Entries} : s = Request(t, a, who) /\ (s.set[k] = IF k \in a THEN t.set[k] ELSE 0)
                                           /\ (s.remove[k] = IF k \in a THEN t.remove[k] ELSE 0)
          BY <1>4, <3>3
        <4>2. PICK b \in {Prefs, Entries} : r = Request(t, b, who) /\ (r.set[k] = IF k \in b THEN t.set[k] ELSE 0)
                                           /\ (r.remove[k] = IF k \in b THEN t.remove[k] ELSE 0)
          BY <1>4, <3>3
        <4>3. k \in a /\ k \in b
          BY <2>2, <4>1, <4>2 DEF Carries
        <4>4. a = b
          BY <4>3, PrefsAssumption
        <4>5. QED
          BY <4>1, <4>2, <4>4
      <3>4. QED
        BY <1>1, <2>1, <2>2, <3>2, <3>3
    <2>3. QED
      BY <2>2 DEF SentOnce, Carries
  <1>8. ASSUME NEW k \in Names, k \notin crossed', newest'[k] # 0 PROVE KeptIn(tab, newest[k], k)'
    <2>1. /\ k \notin crossed
          /\ ~((\E s \in sends : Carries(s, k)) /\ (\E s \in Requests(t, who) : Carries(s, k)))
      BY <1>1, <1>8
    <2>2. NothingOlder(t, newest'[k], k) /\ Somewhere(t, newest'[k], k)
      BY <1>8, <2>1 DEF KeptIn
    <2>3. t.set[k] \in {0, newest'[k]} /\ t.remove[k] \in {0, newest'[k]}
      BY <2>2 DEF NothingOlder
    <2>4. \A q \in Requests(t, who) : /\ q.set[k] \in {0, t.set[k]} /\ q.remove[k] \in {0, t.remove[k]}
                                     /\ q.sentFor = tab.generation
      BY <1>4
    <2>5. tab'.set[k] = 0 /\ tab'.remove[k] = 0
      BY <1>2, NothingType
    <2>6. CASE t.set[k] # 0 \/ t.remove[k] # 0
      <3>1. PICK q \in Requests(t, who) : q.set[k] = t.set[k] /\ q.remove[k] = t.remove[k]
        BY <1>5, <2>6
      <3>2. \A s \in sends : s.set[k] = 0 /\ s.remove[k] = 0
        BY <2>1, <2>6, <3>1 DEF Carries
      <3>3. newest'[k] \in {q.set[k], q.remove[k]}
        BY <2>3, <2>6, <3>1
      <3>4. \A s \in sends' : s.set[k] \in {0, newest'[k]} /\ s.remove[k] \in {0, newest'[k]}
        BY <1>1, <2>3, <2>4, <3>2
      <3>5. q \in sends' /\ q.sentFor = tab'.generation
        BY <1>1, <1>2, <2>4
      <3>6. QED
        BY <2>5, <3>3, <3>4, <3>5 DEF KeptIn, NothingOlder, Somewhere, OfThisPage
    <2>7. CASE t.set[k] = 0 /\ t.remove[k] = 0
      <3>1. ~InTab(t, newest'[k], k)
        BY <1>8, <2>7 DEF InTab
      <3>2. \A s \in sends' : s.sentFor = tab'.generation => s.set[k] \in {0, newest'[k]} /\ s.remove[k] \in {0, newest'[k]}
        BY <1>1, <1>2, <2>2, <2>4, <2>7, <3>1 DEF NothingOlder, OfThisPage
      <3>3. newest'[k] \in got \/ \E s \in sends : s.sentFor = tab.generation /\ newest'[k] \in {s.set[k], s.remove[k]}
        BY <2>2, <3>1 DEF Somewhere, OfThisPage
      <3>4. newest'[k] \in got' \/ \E s \in sends' : s.sentFor = tab'.generation /\ newest'[k] \in {s.set[k], s.remove[k]}
        BY <1>1, <1>2, <3>3
      <3>5. QED
        BY <2>5, <3>2, <3>4 DEF KeptIn, NothingOlder, Somewhere, OfThisPage
    <2>8. QED
      BY <2>6, <2>7
  <1>9. ASSUME NEW k \in Names, k \notin crossed' PROVE KeptIn(tab, newest[k], k)'
    BY <1>8, <1>9 DEF KeptIn
  <1>10. QED
    BY <1>6, <1>7, <1>9 DEF KeptInv

(* A send that failed is put back behind what the tab has, which is what was changed since. *)
LEMMA FailedKept == ASSUME OwnInv, KeptInv, NEW s \in sends, Failed(s) PROVE KeptInv'
  <1>1. /\ sends' = sends \ {s} /\ tab' = IF Belongs(s) THEN PutBack(s) ELSE tab
        /\ newest' = newest /\ crossed' = crossed /\ got \subseteq got'
    BY DEF Failed
  <1>2. tab \in Tab /\ s \in Put /\ tab.set \in Changes /\ tab.remove \in Changes /\ s.set \in Changes /\ s.remove \in Changes
    BY DEF OwnInv, PrefsTypes, Tab, Put
  <1>3. CASE ~Belongs(s)
    <2>1. tab' = tab /\ ~OfThisPage(s)
      BY <1>1, <1>3 DEF Belongs, OfThisPage
    <2>2. OneOrOther'
      BY <1>1, <2>1 DEF KeptInv, OneOrOther
    <2>3. ASSUME NEW k \in Names \ crossed PROVE SentOnce(k)' /\ KeptIn(tab, newest[k], k)'
      BY <1>1, <2>1 DEF KeptInv, SentOnce, KeptIn, NothingOlder, Somewhere, InTab, OfThisPage, Carries
    <2>4. QED
      BY <1>1, <2>2, <2>3 DEF KeptInv
  <1>4. CASE Belongs(s)
    <2>1. /\ tab'.set = Without(Over(tab.set, s.set), tab.remove)
          /\ tab'.remove = Without(Over(tab.remove, s.remove), tab.set)
          /\ tab'.generation = tab.generation
      BY <1>1, <1>2, <1>4, PutBackFields
    <2>2. \A k \in Names :
              /\ tab'.set[k] = IF tab.remove[k] # 0 THEN 0 ELSE IF tab.set[k] # 0 THEN tab.set[k] ELSE s.set[k]
              /\ tab'.remove[k] = IF tab.set[k] # 0 THEN 0 ELSE IF tab.remove[k] # 0 THEN tab.remove[k] ELSE s.remove[k]
      BY <1>2, <2>1, MixedType
    <2>3. OfThisPage(s)
      BY <1>4 DEF Belongs, OfThisPage
    <2>4. OneOrOther'
      BY <1>1, <2>2 DEF KeptInv, OneOrOther
    <2>5. ASSUME NEW k \in Names \ crossed PROVE SentOnce(k)'
      BY <1>1, <2>1 DEF KeptInv, SentOnce, OfThisPage, Carries
    <2>6. ASSUME NEW k \in Names \ crossed, newest[k] # 0 PROVE KeptIn(tab, newest[k], k)'
      <3>1. NothingOlder(tab, newest[k], k) /\ Somewhere(tab, newest[k], k)
        BY <2>6 DEF KeptInv, KeptIn
      <3>2. tab.set[k] = 0 \/ tab.remove[k] = 0
        BY DEF KeptInv, OneOrOther
      <3>3. CASE tab.set[k] # 0 \/ tab.remove[k] # 0
        <4>1. tab'.set[k] = tab.set[k] /\ tab'.remove[k] = tab.remove[k] /\ InTab(tab', newest[k], k)
          BY <2>2, <3>1, <3>2, <3>3 DEF NothingOlder, InTab
        <4>2. QED
          BY <1>1, <3>1, <4>1 DEF KeptIn, NothingOlder, Somewhere, InTab
      <3>4. CASE tab.set[k] = 0 /\ tab.remove[k] = 0
        <4>1. ~InTab(tab, newest[k], k)
          BY <2>6, <3>4 DEF InTab
        <4>2. tab'.set[k] = s.set[k] /\ tab'.remove[k] = s.remove[k]
          BY <2>2, <3>4
        <4>3. \A r \in sends : OfThisPage(r) => r.set[k] \in {0, newest[k]} /\ r.remove[k] \in {0, newest[k]}
          BY <3>1, <4>1 DEF NothingOlder
        <4>4. NothingOlder(tab, newest[k], k)'
          BY <1>1, <2>1, <2>3, <4>2, <4>3 DEF NothingOlder, OfThisPage
        <4>5. newest[k] \in got \/ \E r \in sends : OfThisPage(r) /\ newest[k] \in {r.set[k], r.remove[k]}
          BY <3>1, <4>1 DEF Somewhere
        <4>6. Somewhere(tab, newest[k], k)'
          BY <1>1, <2>1, <4>2, <4>5 DEF Somewhere, InTab, OfThisPage
        <4>7. QED
          BY <4>4, <4>6 DEF KeptIn
      <3>5. QED
        BY <3>3, <3>4
    <2>7. ASSUME NEW k \in Names \ crossed PROVE KeptIn(tab, newest[k], k)'
      BY <1>1, <2>6, <2>7 DEF KeptIn
    <2>8. QED
      BY <1>1, <2>4, <2>5, <2>7 DEF KeptInv
  <1>5. QED
    BY <1>3, <1>4

LEMMA AcceptedKept == ASSUME OwnInv, KeptInv, NEW s \in sends, Accepted(s) PROVE KeptInv'
  <1>1. /\ sends' = sends \ {s} /\ tab' = tab /\ newest' = newest /\ crossed' = crossed
        /\ got' = got \cup (Taken(s) \ {0})
    BY DEF Accepted, Arrives
  <1>2. OneOrOther'
    BY <1>1 DEF KeptInv, OneOrOther
  <1>3. ASSUME NEW k \in Names \ crossed PROVE SentOnce(k)'
    BY <1>1 DEF KeptInv, SentOnce, OfThisPage, Carries
  <1>4. ASSUME NEW k \in Names \ crossed, newest[k] # 0 PROVE KeptIn(tab, newest[k], k)'
    <2>1. NothingOlder(tab, newest[k], k) /\ Somewhere(tab, newest[k], k)
      BY <1>4 DEF KeptInv, KeptIn
    <2>2. newest[k] \in {s.set[k], s.remove[k]} => newest[k] \in got'
      BY <1>1, <1>4 DEF Taken
    <2>3. Somewhere(tab, newest[k], k)'
      BY <1>1, <2>1, <2>2 DEF Somewhere, InTab, OfThisPage
    <2>4. NothingOlder(tab, newest[k], k)'
      BY <1>1, <2>1 DEF NothingOlder, InTab, OfThisPage
    <2>5. QED
      BY <2>3, <2>4 DEF KeptIn
  <1>5. ASSUME NEW k \in Names \ crossed PROVE KeptIn(tab, newest[k], k)'
    BY <1>1, <1>4, <1>5 DEF KeptIn
  <1>6. QED
    BY <1>1, <1>2, <1>3, <1>5 DEF KeptInv

LEMMA ClearKept == ASSUME OwnInv, KeptInv, NEW k \in Names, Clear(k) PROVE KeptInv'
  <1>1. /\ tab' = [tab EXCEPT !.set[k] = 0, !.pending = FALSE] /\ newest' = [newest EXCEPT ![k] = 0]
        /\ sends' = sends /\ got' = got /\ crossed' = crossed
    BY DEF Clear
  <1>2. tab \in Tab /\ newest \in Changes /\ tab.set \in Changes
    BY DEF OwnInv, PrefsTypes, Tab
  <1>3. tab'.set = [tab.set EXCEPT ![k] = 0] /\ tab'.remove = tab.remove /\ tab'.generation = tab.generation
    BY <1>1, <1>2, ClearedFields
  <1>4. /\ tab'.set[k] = 0 /\ newest'[k] = 0
        /\ \A j \in Names \ {k} : tab'.set[j] = tab.set[j] /\ newest'[j] = newest[j]
    BY <1>1, <1>2, <1>3 DEF Changes
  <1>5. OneOrOther'
    BY <1>1, <1>3, <1>4 DEF KeptInv, OneOrOther
  <1>6. ASSUME NEW j \in Names \ crossed PROVE SentOnce(j)' /\ KeptIn(tab, newest[j], j)'
    <2>1. CASE j = k
      BY <1>1, <1>3, <1>4, <2>1 DEF KeptInv, SentOnce, KeptIn, OfThisPage, Carries
    <2>2. CASE j # k
      BY <1>1, <1>3, <1>4, <2>2, AloneKept DEF KeptInv
    <2>3. QED
      BY <2>1, <2>2
  <1>7. QED
    BY <1>1, <1>5, <1>6 DEF KeptInv

LEMMA FreshKept ==
    ASSUME OwnInv, KeptInv, NEW account \in Accounts \cup {Nobody}, tab.generation < 2 * MaxTurns,
           tab' = Fresh(account), newest' = Nothing, sends' = sends, crossed' = {}
    PROVE  KeptInv'
  <1>1. tab'.set = Nothing /\ tab'.remove = Nothing /\ tab'.generation = tab.generation + 1
    BY FreshFields DEF OwnInv, PrefsTypes
  <1>2. OneOrOther'
    BY <1>1, NothingType DEF KeptInv, OneOrOther
  <1>3. ASSUME NEW s \in sends PROVE s.sentFor # tab'.generation
    <2>1. s.sentFor \in 0..(2 * MaxTurns) /\ tab.generation \in 0..(2 * MaxTurns) /\ s.sentFor <= tab.generation
      BY DEF OwnInv, PrefsTypes, RequestsOwned, Put, Tab
    <2>2. QED
      BY <1>1, <2>1, PrefsAssumption
  <1>4. \A k \in Names : SentOnce(k)' /\ KeptIn(tab, newest[k], k)'
    BY <1>3, NothingType DEF SentOnce, KeptIn, OfThisPage, Carries
  <1>5. QED
    BY <1>2, <1>4 DEF KeptInv

LEMMA NextKept == OwnInv /\ KeptInv /\ [PrefsNext]_prefVars => KeptInv'
  <1> SUFFICES ASSUME OwnInv, KeptInv, [PrefsNext]_prefVars PROVE KeptInv'
    OBVIOUS
  <1>1. ASSUME NEW k \in Names, Share(k) \/ Unshare(k) PROVE KeptInv'
    <2>1. /\ Changed(k) /\ sends' = sends /\ got' = got /\ crossed' = crossed
          /\ tab' = Gathered(tab, k, Number, 0) \/ tab' = Gathered(tab, k, 0, Number)
      BY <1>1 DEF Share, Unshare, WithSet, WithRemoved, Gathered
    <2>2. Number # 0
      BY <2>1, NumberMade
    <2>3. QED
      BY <2>1, <2>2, GatheredKept
  <1>2. ASSUME NEW k \in Names, ShareNow(k) PROVE KeptInv'
    <2> DEFINE t == Gathered(tab, k, Number, 0)
    <2>1. Changed(k) /\ Sends(t) /\ got' = got
      BY <1>2 DEF ShareNow, WithSet, Gathered
    <2>2. Number # 0
      BY <2>1, NumberMade
    <2>3. /\ t \in Tab /\ t.generation = tab.generation
          /\ \A j \in Names : t.set[j] = 0 \/ t.remove[j] = 0
          /\ \A j \in Names \ crossed : KeptIn(t, newest'[j], j)
      BY <2>1, <2>2, GathersKept
    <2> HIDE DEF t
    <2>4. QED
      BY <2>1, <2>3, SendsKept
  <1>3. ASSUME Timer PROVE KeptInv'
    <2>1. Sends(tab) /\ got' = got /\ newest' = newest
      BY <1>3 DEF Timer
    <2>2. tab \in Tab
      BY DEF OwnInv, PrefsTypes
    <2>3. \A j \in Names \ crossed : KeptIn(tab, newest'[j], j)
      BY <2>1 DEF KeptInv
    <2>4. \A j \in Names : tab.set[j] = 0 \/ tab.remove[j] = 0
      BY DEF KeptInv, OneOrOther
    <2>5. QED
      BY <2>1, <2>2, <2>3, <2>4, SendsKept
  <1>4. ASSUME NEW account \in Accounts, SignIn(account) PROVE KeptInv'
    <2>1. /\ tab.generation < 2 * MaxTurns - 1 /\ sends' = sends /\ got' = got
          /\ IF tab.loadedFor = account THEN tab' = tab /\ newest' = newest /\ crossed' = crossed
             ELSE tab' = Fresh(account) /\ newest' = Nothing /\ crossed' = {}
      BY <1>4 DEF SignIn
    <2>2. tab.generation < 2 * MaxTurns
      <3>1. tab.generation \in 0..(2 * MaxTurns)
        BY DEF OwnInv, PrefsTypes, Tab
      <3>2. QED
        BY <2>1, <3>1, PrefsAssumption
    <2>3. CASE tab.loadedFor = account
      BY <2>1, <2>3, AloneKept DEF KeptInv, OneOrOther
    <2>4. CASE tab.loadedFor # account
      BY <2>1, <2>2, <2>4, FreshKept
    <2>5. QED
      BY <2>3, <2>4
  <1>5. ASSUME SignedOut PROVE KeptInv'
    <2>1. tab.generation < 2 * MaxTurns /\ tab' = Fresh(Nobody) /\ newest' = Nothing /\ sends' = sends /\ crossed' = {}
      BY <1>5 DEF SignedOut
    <2>2. QED
      BY <2>1, FreshKept
  <1>6. ASSUME Expires \/ SignsOut \/ UNCHANGED prefVars PROVE KeptInv'
    <2>1. tab' = tab /\ sends' = sends /\ newest' = newest /\ got' = got /\ crossed' = crossed
      BY <1>6 DEF Expires, SignsOut, prefVars
    <2>2. QED
      BY <2>1, AloneKept DEF KeptInv, OneOrOther
  <1>7. QED
    BY <1>1, <1>2, <1>3, <1>4, <1>5, <1>6, ClearKept, AcceptedKept, FailedKept DEF PrefsNext

(* account-prefs.ts, of a failed send: whatever was changed again meanwhile, and whichever request fails, the newest
   change of a name is still to be sent, under way or taken, as long as two sends of the name do not overlap. *)
THEOREM FailedSendKept == PrefsSpec => []KeptUnlessCrossed
  <1>1. ASSUME OwnInv, KeptInv, NEW k \in Names \ crossed PROVE IsKept(k)
    <2>1. newest[k] # 0 => Somewhere(tab, newest[k], k)
      BY <1>1 DEF KeptInv, KeptIn
    <2>2. \A s \in sends : newest[k] \in {s.set[k], s.remove[k]} => newest[k] \in Taken(s)
      BY DEF Taken
    <2>3. QED
      BY <2>1, <2>2 DEF IsKept, Somewhere, InTab
  <1>2. OwnInv /\ KeptInv => KeptUnlessCrossed
    BY <1>1 DEF KeptUnlessCrossed
  <1>3. PrefsSpec => [](OwnInv /\ KeptInv)
    BY OwnInvariant, InitKept, NextKept, PTL DEF PrefsSpec
  <1>4. QED
    BY <1>2, <1>3, PTL

-----------------------------------------------------------------------------
(* What the types say beside what the two invariants keep. *)
PlainTypes == page \in {"in", "leaving", "login"} /\ got \subseteq 1..MaxChanges /\ crossed \subseteq Names

LEMMA TakenType ==
    ASSUME NEW s \in Put
    PROVE  Taken(s) \ {0} \subseteq 1..MaxChanges
  <1>1. s.set \in Changes /\ s.remove \in Changes
    BY DEF Put
  <1>2. \A k \in Names : s.set[k] \in 0..MaxChanges /\ s.remove[k] \in 0..MaxChanges
    BY <1>1 DEF Changes
  <1>3. Taken(s) \subseteq 0..MaxChanges
    BY <1>2 DEF Taken
  <1>4. QED
    BY <1>3, PrefsAssumption

LEMMA NextPlain == OwnInv /\ PlainTypes /\ [PrefsNext]_prefVars => PlainTypes'
  <1> SUFFICES ASSUME OwnInv, PlainTypes, [PrefsNext]_prefVars PROVE PlainTypes'
    OBVIOUS
  <1>1. ASSUME NEW t, Sends(t) PROVE crossed' \subseteq Names
    BY <1>1 DEF Sends, PlainTypes
  <1>2. ASSUME NEW k \in Names, Share(k) \/ Unshare(k) \/ ShareNow(k) \/ Clear(k) PROVE PlainTypes'
    BY <1>1, <1>2 DEF Share, Unshare, ShareNow, Clear, PlainTypes
  <1>3. ASSUME Timer PROVE PlainTypes'
    BY <1>1, <1>3 DEF Timer, PlainTypes
  <1>4. ASSUME NEW s \in sends, Accepted(s) \/ Failed(s) PROVE PlainTypes'
    <2>1. got' \in {got, got \cup (Taken(s) \ {0})} /\ page' = page /\ crossed' = crossed
      BY <1>4 DEF Accepted, Failed, Arrives
    <2>2. s \in Put
      BY DEF OwnInv, PrefsTypes
    <2>3. QED
      BY <2>1, <2>2, TakenType DEF PlainTypes
  <1>5. ASSUME NEW account \in Accounts, SignIn(account) PROVE PlainTypes'
    BY <1>5 DEF SignIn, PlainTypes
  <1>6. ASSUME Expires \/ SignsOut \/ SignedOut \/ UNCHANGED prefVars PROVE PlainTypes'
    BY <1>6 DEF Expires, SignsOut, SignedOut, prefVars, PlainTypes
  <1>7. QED
    BY <1>2, <1>3, <1>4, <1>5, <1>6 DEF PrefsNext

(* account-prefs.ts: a name is never both set and removed in what the tab gathers, and no send or page is another than
   the code has. *)
THEOREM PrefsKeepTypes == PrefsSpec => []PrefsTypeOK
  <1>1. OwnInv /\ KeptInv /\ PlainTypes => PrefsTypeOK
    BY DEF OwnInv, PrefsTypes, KeptInv, OneOrOther, PlainTypes, PrefsTypeOK
  <1>2. PrefsInit => OwnInv /\ KeptInv /\ PlainTypes
    BY InitOwn, InitKept DEF PrefsInit, PlainTypes
  <1>3. OwnInv /\ KeptInv /\ PlainTypes /\ [PrefsNext]_prefVars => (OwnInv /\ KeptInv /\ PlainTypes)'
    BY NextOwn, NextKept, NextPlain
  <1>4. QED
    BY <1>1, <1>2, <1>3, PTL DEF PrefsSpec
=============================================================================
