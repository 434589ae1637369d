-------------------------- MODULE TabLifecycle_proofs --------------------------
(***************************************************************************)
(* Proofs about the tabs of a browser, for any number of tabs and any      *)
(* intervals that the assumption on lateness allows.                       *)
(***************************************************************************)
EXTENDS TabLifecycle, SequenceTheorems, TLAPS

Limit == HeartbeatInterval + TimerLateness

Message == [type : {"tab-alive", "tab-closed"}, age : 0 .. MessageDelay]

\* The map of a tab, and the messages of all tabs.
Views == UNION {[D -> Nat] : D \in SUBSET Tabs}

Channels == [Tabs -> [Tabs -> Seq(Message)]]

Types ==
    /\ opened \in Seq(Tabs) /\ open \subseteq Opened
    /\ tabs \in [Tabs -> Views]
    /\ isPrimary \in [Tabs -> BOOLEAN]
    /\ sinceBeat \in [Tabs -> 0 .. Limit] /\ sinceClean \in [Tabs -> 0 .. Limit]
    /\ channel \in Channels
    /\ farewell \in [Tabs -> {"none", "said", "stayed"}]
    /\ met \in [Tabs -> SUBSET Tabs]

\* A tab that is open knows itself and those it has met, and only between tabs that have
\* been opened messages are under way, to tabs that are open.
Acquainted ==
    /\ \A t \in Tabs :
         /\ t \in open => t \in DOMAIN tabs[t]
         /\ t \notin open => met[t] = {} /\ DOMAIN tabs[t] = {}
         /\ DOMAIN tabs[t] \subseteq met[t] \cup {t}
         /\ met[t] \subseteq Opened \ {t}
    /\ \A s, r \in Tabs : channel[s][r] # <<>> => s \in Opened /\ r \in open /\ s # r

\* What a view knows of t, or is about to learn from the messages q, is no older than that.
Fresh(t, view, q, known, age) ==
    IF q = <<>> THEN t \in known => t \in DOMAIN view /\ view[t] <= age
                ELSE q[Len(q)].type = "tab-alive" /\ q[Len(q)].age <= age

\* What s knows of t is no older than the last beat of the timer of t.
UpToDate(s, t) == Fresh(t, tabs[s], channel[t][s], met[s], sinceBeat[t])

Alive == \A s, t \in open : s # t /\ farewell[t] # "said" => UpToDate(s, t)

\* The entries that the next round of the cleanup timer finds.
Cleaned == \A t \in open : \A x \in DOMAIN tabs[t] \ {t} : tabs[t][x] <= StaleTimeout + sinceClean[t]

\* The inductive invariant.
LifeInv == Types /\ Acquainted /\ Alive /\ Cleaned /\ LoneSurvivorLeads

-----------------------------------------------------------------------------
LEMMA Numbers ==
    /\ Limit \in Nat /\ StaleTimeout \in Nat /\ MessageDelay \in Nat
    /\ HeartbeatInterval \in Nat \ {0} /\ TimerLateness \in Nat
    /\ Limit + MessageDelay <= StaleTimeout
BY TabLifecycleAssumption DEF Limit

(***************************************************************************)
(* A map is a function from some tabs to ages.                             *)
(***************************************************************************)
LEMMA ViewFacts ==
    ASSUME NEW v \in Views
    PROVE  DOMAIN v \subseteq Tabs /\ v \in [DOMAIN v -> Nat]
BY DEF Views

LEMMA ViewIntro ==
    ASSUME NEW D \in SUBSET Tabs, NEW v \in [D -> Nat]
    PROVE  v \in Views /\ DOMAIN v = D
BY DEF Views

(***************************************************************************)
(* The messages after one more is posted: it is the last one for every     *)
(* other open tab.                                                         *)
(***************************************************************************)
LEMMA PostedFacts ==
    ASSUME channel \in Channels, NEW t \in Tabs, NEW type \in {"tab-alive", "tab-closed"}
    PROVE  /\ Posted(t, type) \in [Tabs -> Seq(Message)]
           /\ \A r \in Tabs \ (open \ {t}) : Posted(t, type)[r] = channel[t][r]
           /\ \A r \in Tabs \cap open : r # t =>
                LET q == Posted(t, type)[r] IN
                q # <<>> /\ q[Len(q)].type = type /\ q[Len(q)].age = 0
<1> DEFINE m == [type |-> type, age |-> 0]
<1>1. m \in Message /\ m.type = type /\ m.age = 0
  BY Numbers DEF Message
<1>2. \A r \in Tabs : channel[t][r] \in Seq(Message)
  BY DEF Channels
<1>3. Posted(t, type) = [r \in Tabs |-> IF r \in open \ {t} THEN Append(channel[t][r], m)
                                        ELSE channel[t][r]]
  BY DEF Posted
<1> HIDE DEF m
<1>4. \A r \in Tabs : LET q == Append(channel[t][r], m) IN
         q \in Seq(Message) /\ q # <<>> /\ q[Len(q)] = m
  <2> TAKE r \in Tabs
  <2> DEFINE c == channel[t][r]
             q == Append(c, m)
  <2>1. c \in Seq(Message)
    BY <1>2
  <2> HIDE DEF c
  <2>2. q \in Seq(Message) /\ q # <<>> /\ Len(q) = Len(c) + 1 /\ q[Len(c) + 1] = m
    BY <1>1, <2>1, AppendProperties
  <2>3. QED
    BY <2>2 DEF c
<1>5. QED
  BY <1>1, <1>2, <1>3, <1>4

(***************************************************************************)
(* The outcome of an election: the map keeps its tabs and what it knows of *)
(* the others, and the tab posts a heartbeat or leaves the channel alone.  *)
(***************************************************************************)
LEMMA ElectFacts ==
    ASSUME Types, NEW t \in Tabs, NEW view \in Views, t \in DOMAIN view,
           NEW rest \in Channels, Elect(t, view, rest)
    PROVE  /\ tabs' \in [Tabs -> Views]
           /\ \A s \in Tabs \ {t} : tabs'[s] = tabs[s]
           /\ DOMAIN tabs'[t] = DOMAIN view
           /\ \A x \in DOMAIN view \ {t} : tabs'[t][x] = view[x]
           /\ isPrimary' = [isPrimary EXCEPT ![t] = Wins(t, view)]
           /\ \/ channel' = rest /\ farewell' = farewell
              \/ channel' = [rest EXCEPT ![t] = Posted(t, "tab-alive")] /\ farewell' = Stays(t)
<1>1. view \in [DOMAIN view -> Nat] /\ DOMAIN view \subseteq Tabs
  BY ViewFacts
<1>2. PICK own \in {view, [view EXCEPT ![t] = 0]} : tabs' = [tabs EXCEPT ![t] = own]
  BY DEF Elect
<1>3. own \in Views /\ DOMAIN own = DOMAIN view /\ \A x \in DOMAIN view \ {t} : own[x] = view[x]
  <2>1. CASE own = view
    BY <2>1
  <2>2. CASE own = [view EXCEPT ![t] = 0]
    <3>1. own \in [DOMAIN view -> Nat]
      BY <1>1, <2>2
    <3>2. QED
      BY <1>1, <2>2, <3>1, ViewIntro
  <2>3. QED
    BY <2>1, <2>2
<1>4. /\ tabs' \in [Tabs -> Views] /\ tabs'[t] = own
      /\ \A s \in Tabs \ {t} : tabs'[s] = tabs[s]
  BY <1>2, <1>3 DEF Types
<1>5. QED
  BY <1>3, <1>4 DEF Elect

(***************************************************************************)
(* The initial state.                                                      *)
(***************************************************************************)
LEMMA InitLifeInv == Init => LifeInv
<1> SUFFICES ASSUME Init PROVE LifeInv
  OBVIOUS
<1>1. NoTabs \in Views /\ DOMAIN NoTabs = {}
  <2>1. NoTabs \in [{} -> Nat]
    BY DEF NoTabs
  <2>2. QED
    BY <2>1, ViewIntro
<1>2. opened = <<>> /\ Opened = {}
  BY DEF Init, Opened
<1>3. Types
  BY <1>1, <1>2, Numbers DEF Init, Types, Channels
<1>4. QED
  BY <1>1, <1>2, <1>3 DEF Init, LifeInv, Acquainted, Alive, Cleaned, LoneSurvivorLeads

(***************************************************************************)
(* A step of one open tab, which may take the first of the messages to it, *)
(* change its map and post a heartbeat: what is to be shown of the tab     *)
(* alone.                                                                  *)
(***************************************************************************)
LEMMA TabStep ==
    ASSUME LifeInv, NEW t \in Tabs, t \in open, UNCHANGED <<opened, open>>,
           tabs' \in [Tabs -> Views], isPrimary' \in [Tabs -> BOOLEAN],
           sinceBeat' \in [Tabs -> 0 .. Limit], sinceClean' \in [Tabs -> 0 .. Limit],
           met' \in [Tabs -> SUBSET Tabs],
           \A s \in Tabs \ {t} : /\ tabs'[s] = tabs[s] /\ isPrimary'[s] = isPrimary[s]
                                 /\ sinceBeat'[s] = sinceBeat[s] /\ met'[s] = met[s]
                                 /\ sinceClean'[s] = sinceClean[s],
           NEW rest \in Channels,
           \A u \in Tabs, s \in Tabs \ {t} : rest[u][s] = channel[u][s],
           \A u \in Tabs : rest[u][t] # <<>> => channel[u][t] # <<>>,
           \/ channel' = rest /\ farewell' = farewell /\ sinceBeat'[t] = sinceBeat[t]
           \/ channel' = [rest EXCEPT ![t] = Posted(t, "tab-alive")] /\ farewell' = Stays(t),
           t \in DOMAIN tabs'[t], DOMAIN tabs'[t] \subseteq met'[t] \cup {t},
           met'[t] \subseteq Opened \ {t},
           \A u \in open \ {t} : farewell[u] # "said" =>
              Fresh(u, tabs'[t], rest[u][t], met'[t], sinceBeat[u]),
           \A x \in DOMAIN tabs'[t] \ {t} : tabs'[t][x] <= StaleTimeout + sinceClean'[t],
           DOMAIN tabs'[t] = {t} /\ met'[t] # {} => isPrimary'[t]
    PROVE  LifeInv'
<1>1. /\ channel \in Channels /\ farewell \in [Tabs -> {"none", "said", "stayed"}]
      /\ open \subseteq Opened /\ Opened \subseteq Tabs /\ opened \in Seq(Tabs)
      /\ open \subseteq Tabs
  BY DEF LifeInv, Types, Opened
<1>2. /\ Posted(t, "tab-alive") \in [Tabs -> Seq(Message)]
      /\ \A r \in Tabs \ (open \ {t}) : Posted(t, "tab-alive")[r] = channel[t][r]
      /\ \A r \in Tabs \cap open : r # t =>
            /\ Posted(t, "tab-alive")[r] # <<>>
            /\ Posted(t, "tab-alive")[r][Len(Posted(t, "tab-alive")[r])].type = "tab-alive"
            /\ Posted(t, "tab-alive")[r][Len(Posted(t, "tab-alive")[r])].age = 0
  BY <1>1, PostedFacts
<1>3. UNCHANGED Opened
  BY DEF Opened
<1>4. channel' \in Channels /\ farewell' \in [Tabs -> {"none", "said", "stayed"}]
  <2>1. CASE channel' = rest /\ farewell' = farewell
    BY <1>1, <2>1
  <2>2. CASE channel' = [rest EXCEPT ![t] = Posted(t, "tab-alive")] /\ farewell' = Stays(t)
    <3>1. channel' \in Channels
      BY <1>2, <2>2 DEF Channels
    <3>2. farewell' \in [Tabs -> {"none", "said", "stayed"}]
      BY <1>1, <2>2 DEF Stays
    <3>3. QED
      BY <3>1, <3>2
  <2>3. QED
    BY <2>1, <2>2
<1>5. Types'
  BY <1>1, <1>3, <1>4 DEF Types
<1>6. ASSUME NEW u \in Tabs, NEW s \in Tabs
      PROVE  \/ channel'[u][s] = rest[u][s]
             \/ /\ u = t /\ s \in open /\ s # t /\ channel'[u][s] # <<>>
                /\ channel'[u][s][Len(channel'[u][s])].type = "tab-alive"
                /\ channel'[u][s][Len(channel'[u][s])].age = 0
  <2>1. CASE channel' = rest \/ u # t
    BY <2>1 DEF Channels
  <2>2. CASE channel' = [rest EXCEPT ![t] = Posted(t, "tab-alive")] /\ u = t
    <3>1. channel'[u] = Posted(t, "tab-alive")
      BY <2>2 DEF Channels
    <3>2. CASE s \in open /\ s # t
      BY <1>2, <2>2, <3>1, <3>2
    <3>3. CASE s \notin open
      <4>1. s # t /\ channel'[u][s] = channel[t][s]
        BY <1>2, <3>1, <3>3
      <4>2. QED
        BY <2>2, <4>1
    <3>4. CASE s = t
      <4>1. channel'[u][s] = channel[t][t]
        BY <1>2, <3>1, <3>4
      <4>2. channel[t][t] = <<>> /\ rest[t][t] = <<>>
        BY DEF LifeInv, Acquainted
      <4>3. QED
        BY <2>2, <3>4, <4>1, <4>2
    <3>5. QED
      BY <3>2, <3>3, <3>4
  <2>3. QED
    BY <2>1, <2>2
<1>7. Acquainted'
  <2>1. ASSUME NEW s \in Tabs
        PROVE  /\ s \in open => s \in DOMAIN tabs'[s]
               /\ s \notin open => met'[s] = {} /\ DOMAIN tabs'[s] = {}
               /\ DOMAIN tabs'[s] \subseteq met'[s] \cup {s}
               /\ met'[s] \subseteq Opened \ {s}
    <3>1. CASE s = t
      BY <3>1
    <3>2. CASE s # t
      BY <3>2 DEF LifeInv, Acquainted
    <3>3. QED
      BY <3>1, <3>2
  <2>2. ASSUME NEW u \in Tabs, NEW s \in Tabs, channel'[u][s] # <<>>
        PROVE  u \in Opened /\ s \in open /\ u # s
    <3>1. CASE u = t /\ s \in open /\ s # t
      BY <1>1, <3>1
    <3>2. CASE channel'[u][s] = rest[u][s]
      <4>1. channel[u][s] # <<>>
        BY <2>2, <3>2
      <4>2. QED
        BY <4>1 DEF LifeInv, Acquainted
    <3>3. QED
      BY <1>6, <3>1, <3>2
  <2>3. QED
    BY <1>3, <2>1, <2>2 DEF Acquainted
<1>8. Alive'
  <2>1. SUFFICES ASSUME NEW s \in open, NEW u \in open, s # u, farewell'[u] # "said"
                 PROVE  Fresh(u, tabs'[s], channel'[u][s], met'[s], sinceBeat'[u])
    BY DEF Alive, UpToDate
  <2>2. s \in Tabs /\ u \in Tabs /\ sinceBeat'[u] \in 0 .. Limit
    BY <1>1
  <2>3. CASE /\ u = t /\ channel'[u][s] # <<>>
             /\ channel'[u][s][Len(channel'[u][s])].type = "tab-alive"
             /\ channel'[u][s][Len(channel'[u][s])].age = 0
    BY <2>2, <2>3, Numbers DEF Fresh
  <2>4. CASE /\ channel'[u][s] = rest[u][s]
             /\ farewell'[u] = farewell[u] /\ sinceBeat'[u] = sinceBeat[u]
    <3>1. CASE s = t
      BY <2>1, <2>4, <3>1
    <3>2. CASE s # t
      <4>1. UpToDate(s, u)
        BY <2>1, <2>4 DEF LifeInv, Alive
      <4>2. rest[u][s] = channel[u][s] /\ tabs'[s] = tabs[s] /\ met'[s] = met[s]
        BY <2>2, <3>2
      <4>3. QED
        BY <2>4, <4>1, <4>2 DEF UpToDate
    <3>3. QED
      BY <3>1, <3>2
  <2>5. CASE u # t
    <3>1. channel'[u][s] = rest[u][s]
      BY <1>6, <2>2, <2>5
    <3>2. farewell'[u] = farewell[u]
      BY <1>1, <2>2, <2>5 DEF Stays
    <3>3. QED
      BY <2>2, <2>4, <2>5, <3>1, <3>2
  <2>6. CASE u = t
    <3>1. CASE channel' = rest /\ farewell' = farewell /\ sinceBeat'[t] = sinceBeat[t]
      BY <2>4, <2>6, <3>1
    <3>2. CASE channel' = [rest EXCEPT ![t] = Posted(t, "tab-alive")]
      <4>1. channel'[u] = Posted(t, "tab-alive") /\ s # t
        BY <2>1, <2>6, <3>2 DEF Channels
      <4>2. QED
        BY <1>2, <2>2, <2>3, <2>6, <4>1
    <3>3. QED
      BY <3>1, <3>2
  <2>7. QED
    BY <2>5, <2>6
<1>9. Cleaned'
  <2>1. SUFFICES ASSUME NEW s \in open, NEW x \in DOMAIN tabs'[s] \ {s}
                 PROVE  tabs'[s][x] <= StaleTimeout + sinceClean'[s]
    BY DEF Cleaned
  <2>2. CASE s = t
    BY <2>2
  <2>3. CASE s # t
    BY <1>1, <2>3 DEF LifeInv, Cleaned
  <2>4. QED
    BY <2>2, <2>3
<1>10. LoneSurvivorLeads'
  <2>1. SUFFICES ASSUME NEW s \in open, DOMAIN tabs'[s] = {s}, met'[s] # {}
                 PROVE  isPrimary'[s]
    BY DEF LoneSurvivorLeads
  <2>2. CASE s = t
    BY <2>1, <2>2
  <2>3. CASE s # t
    BY <1>1, <2>1, <2>3 DEF LifeInv, LoneSurvivorLeads
  <2>4. QED
    BY <2>2, <2>3
<1>11. QED
  BY <1>5, <1>7, <1>8, <1>9, <1>10 DEF LifeInv

(***************************************************************************)
(* What LifeInv says of an open tab.                                       *)
(***************************************************************************)
LEMMA TabFacts ==
    ASSUME LifeInv, NEW t \in Tabs, t \in open
    PROVE  /\ open \subseteq Tabs /\ channel \in Channels
           /\ tabs[t] \in Views /\ t \in DOMAIN tabs[t]
           /\ tabs[t] \in [DOMAIN tabs[t] -> Nat]
           /\ DOMAIN tabs[t] \subseteq met[t] \cup {t} /\ met[t] \subseteq Opened \ {t}
           /\ \A u \in open \ {t} : farewell[u] # "said" =>
                 Fresh(u, tabs[t], channel[u][t], met[t], sinceBeat[u])
           /\ \A x \in DOMAIN tabs[t] \ {t} : tabs[t][x] <= StaleTimeout + sinceClean[t]
           /\ DOMAIN tabs[t] = {t} /\ met[t] # {} => isPrimary[t]
           /\ sinceBeat[t] \in 0 .. Limit /\ sinceClean[t] \in 0 .. Limit
<1>1. open \subseteq Tabs /\ channel \in Channels /\ tabs[t] \in Views
      /\ sinceBeat[t] \in 0 .. Limit /\ sinceClean[t] \in 0 .. Limit
  BY DEF LifeInv, Types, Opened
<1>2. tabs[t] \in [DOMAIN tabs[t] -> Nat]
  BY <1>1, ViewFacts
<1>3. \A u \in open \ {t} : farewell[u] # "said" =>
         Fresh(u, tabs[t], channel[u][t], met[t], sinceBeat[u])
  BY DEF LifeInv, Alive, UpToDate
<1>4. QED
  BY <1>1, <1>2, <1>3 DEF LifeInv, Acquainted, Cleaned, LoneSurvivorLeads

(***************************************************************************)
(* A view that agrees about u is as fresh.                                 *)
(***************************************************************************)
LEMMA FreshSame ==
    ASSUME NEW u, NEW v, NEW w, NEW q, NEW known, NEW age, Fresh(u, v, q, known, age),
           u \in DOMAIN v => u \in DOMAIN w /\ w[u] = v[u]
    PROVE  Fresh(u, w, q, known, age)
BY DEF Fresh

LEMMA HeartbeatStep ==
    ASSUME LifeInv, NEW t \in Tabs, Heartbeat(t)
    PROVE  LifeInv'
<1> DEFINE view == [tabs[t] EXCEPT ![t] = 0]
<1>1. t \in open /\ UNCHANGED <<opened, open, isPrimary, sinceClean, met>>
  BY DEF Heartbeat
<1>2. view \in Views /\ DOMAIN view = DOMAIN tabs[t]
  <2>1. view \in [DOMAIN tabs[t] -> Nat] /\ DOMAIN tabs[t] \in SUBSET Tabs
    BY <1>1, TabFacts, ViewFacts
  <2>2. QED
    BY <2>1, ViewIntro
<1>3. \A x \in DOMAIN tabs[t] \ {t} : view[x] = tabs[t][x]
  OBVIOUS
<1>4. tabs' = [tabs EXCEPT ![t] = view]
  BY DEF Heartbeat
<1> HIDE DEF view
<1>5. /\ tabs' \in [Tabs -> Views] /\ tabs'[t] = view
      /\ \A s \in Tabs \ {t} : tabs'[s] = tabs[s]
  BY <1>2, <1>4 DEF LifeInv, Types
<1>6. /\ sinceBeat' \in [Tabs -> 0 .. Limit]
      /\ \A s \in Tabs \ {t} : sinceBeat'[s] = sinceBeat[s]
  BY Numbers DEF Heartbeat, LifeInv, Types
<1>7. \A u \in open \ {t} : farewell[u] # "said" =>
         Fresh(u, view, channel[u][t], met[t], sinceBeat[u])
  BY <1>1, <1>2, <1>3, TabFacts, FreshSame
<1>8. channel' = [channel EXCEPT ![t] = Posted(t, "tab-alive")] /\ farewell' = Stays(t)
  BY DEF Heartbeat
<1>9. /\ isPrimary \in [Tabs -> BOOLEAN] /\ sinceClean \in [Tabs -> 0 .. Limit]
      /\ met \in [Tabs -> SUBSET Tabs] /\ channel \in Channels
  BY DEF LifeInv, Types
<1>10. /\ t \in DOMAIN view /\ DOMAIN view \subseteq met[t] \cup {t}
       /\ met[t] \subseteq Opened \ {t}
       /\ \A x \in DOMAIN view \ {t} : view[x] <= StaleTimeout + sinceClean[t]
       /\ DOMAIN view = {t} /\ met[t] # {} => isPrimary[t]
  BY <1>1, <1>2, <1>3, TabFacts
<1>11. QED
  BY <1>1, <1>5, <1>6, <1>7, <1>8, <1>9, <1>10, TabStep

(***************************************************************************)
(* A map without some of the other tabs.                                   *)
(***************************************************************************)
LEMMA RestrictFacts ==
    ASSUME NEW view \in Views, NEW D \in SUBSET DOMAIN view
    PROVE  /\ Restrict(view, D) \in Views /\ DOMAIN Restrict(view, D) = D
           /\ \A x \in D : Restrict(view, D)[x] = view[x]
<1>1. D \in SUBSET Tabs /\ \A x \in D : view[x] \in Nat
  BY ViewFacts
<1>2. Restrict(view, D) \in [D -> Nat] /\ \A x \in D : Restrict(view, D)[x] = view[x]
  BY <1>1 DEF Restrict
<1>3. QED
  BY <1>1, <1>2, ViewIntro

(***************************************************************************)
(* A tab alone wins.                                                       *)
(***************************************************************************)
LEMMA AloneWins ==
    ASSUME NEW t, NEW view \in Views, DOMAIN view = {t}
    PROVE  Wins(t, view)
<1>1. view[t] \in Nat
  BY ViewFacts
<1>2. QED
  BY <1>1 DEF Wins

LEMMA CleanupStep ==
    ASSUME LifeInv, NEW t \in Tabs, Cleanup(t)
    PROVE  LifeInv'
<1> DEFINE stale == {x \in DOMAIN tabs[t] \ {t} : IsStale(tabs[t][x])}
           D == DOMAIN tabs[t] \ stale
           view == Restrict(tabs[t], D)
<1>1. /\ t \in open /\ UNCHANGED <<opened, open, sinceBeat, met>>
      /\ sinceClean' = [sinceClean EXCEPT ![t] = 0]
  BY DEF Cleanup
<1>2. /\ isPrimary \in [Tabs -> BOOLEAN] /\ sinceClean \in [Tabs -> 0 .. Limit]
      /\ met \in [Tabs -> SUBSET Tabs] /\ channel \in Channels /\ tabs \in [Tabs -> Views]
      /\ sinceBeat \in [Tabs -> 0 .. Limit]
  BY DEF LifeInv, Types
<1>3. /\ sinceClean' \in [Tabs -> 0 .. Limit] /\ sinceClean'[t] = 0
      /\ \A s \in Tabs \ {t} : sinceClean'[s] = sinceClean[s]
  BY <1>1, <1>2, Numbers
<1>4. \A x \in D \ {t} : tabs[t][x] \in Nat /\ tabs[t][x] <= StaleTimeout
  <2>1. \A x \in DOMAIN tabs[t] : tabs[t][x] \in Nat
    BY <1>1, TabFacts
  <2>2. QED
    BY <2>1, Numbers DEF IsStale
<1>5. t \in D /\ D \subseteq DOMAIN tabs[t]
  BY <1>1, TabFacts
<1>6. CASE stale = {}
  <2>1. UNCHANGED <<tabs, isPrimary, channel, farewell>>
    BY <1>6 DEF Cleanup
  <2>2. \A x \in DOMAIN tabs[t] \ {t} : tabs[t][x] <= StaleTimeout + sinceClean'[t]
    BY <1>3, <1>4, <1>6, Numbers
  <2> HIDE DEF stale, D, view
  <2>3. /\ t \in DOMAIN tabs[t] /\ DOMAIN tabs[t] \subseteq met[t] \cup {t}
        /\ met[t] \subseteq Opened \ {t}
        /\ DOMAIN tabs[t] = {t} /\ met[t] # {} => isPrimary[t]
        /\ \A u \in open \ {t} : farewell[u] # "said" =>
               Fresh(u, tabs[t], channel[u][t], met[t], sinceBeat[u])
    BY <1>1, TabFacts
  <2>4. QED
    BY <1>1, <1>2, <1>3, <2>1, <2>2, <2>3, TabStep
<1>7. CASE stale # {}
  <2>1. Elect(t, view, channel)
    BY <1>7 DEF Cleanup
  <2>2. view \in Views /\ DOMAIN view = D /\ \A x \in D : view[x] = tabs[t][x]
    BY <1>1, <1>5, TabFacts, RestrictFacts
  <2>3. \A u \in open \ {t} : farewell[u] # "said" =>
           Fresh(u, view, channel[u][t], met[t], sinceBeat[u])
    <3>1. SUFFICES ASSUME NEW u \in open \ {t}, farewell[u] # "said"
                   PROVE  Fresh(u, view, channel[u][t], met[t], sinceBeat[u])
      OBVIOUS
    <3>2. Fresh(u, tabs[t], channel[u][t], met[t], sinceBeat[u]) /\ u \in Tabs
          /\ tabs[t] \in [DOMAIN tabs[t] -> Nat]
      BY <1>1, <3>1, TabFacts
    <3>3. CASE channel[u][t] # <<>>
      BY <3>2, <3>3 DEF Fresh
    <3>4. CASE channel[u][t] = <<>> /\ u \in met[t]
      <4>1. u \in DOMAIN tabs[t] /\ tabs[t][u] <= sinceBeat[u]
        BY <3>2, <3>4 DEF Fresh
      <4>2. sinceBeat[u] \in 0 .. Limit /\ tabs[t][u] \in Nat
        BY <1>2, <3>2, <4>1
      <4>3. ~IsStale(tabs[t][u])
        BY <4>1, <4>2, Numbers DEF IsStale
      <4>4. u \in D
        BY <4>1, <4>3
      <4>5. QED
        BY <2>2, <3>4, <4>1, <4>4 DEF Fresh
    <3>5. CASE channel[u][t] = <<>> /\ u \notin met[t]
      BY <3>5 DEF Fresh
    <3>6. QED
      BY <3>3, <3>4, <3>5
  <2> HIDE DEF stale, D, view
  <2>4. /\ tabs' \in [Tabs -> Views]
        /\ \A s \in Tabs \ {t} : tabs'[s] = tabs[s]
        /\ DOMAIN tabs'[t] = D
        /\ \A x \in D \ {t} : tabs'[t][x] = tabs[t][x]
        /\ isPrimary' = [isPrimary EXCEPT ![t] = Wins(t, view)]
        /\ \/ channel' = channel /\ farewell' = farewell
           \/ channel' = [channel EXCEPT ![t] = Posted(t, "tab-alive")] /\ farewell' = Stays(t)
    <3>1. Types
      BY DEF LifeInv
    <3>2. QED
      BY <1>2, <1>5, <2>1, <2>2, <3>1, ElectFacts
  <2>5. \A u \in open \ {t} : farewell[u] # "said" =>
           Fresh(u, tabs'[t], channel[u][t], met[t], sinceBeat[u])
    BY <2>2, <2>3, <2>4, FreshSame
  <2>6. \A x \in DOMAIN tabs'[t] \ {t} : tabs'[t][x] <= StaleTimeout + sinceClean'[t]
    BY <1>3, <1>4, <2>4, Numbers
  <2>7. /\ isPrimary' \in [Tabs -> BOOLEAN]
        /\ \A s \in Tabs \ {t} : isPrimary'[s] = isPrimary[s]
        /\ DOMAIN tabs'[t] = {t} => isPrimary'[t]
    <3>1. Wins(t, view) \in BOOLEAN
      BY DEF Wins
    <3>2. QED
      BY <1>2, <2>2, <2>4, <3>1, AloneWins
  <2>8. /\ t \in DOMAIN tabs'[t] /\ DOMAIN tabs'[t] \subseteq met[t] \cup {t}
        /\ met[t] \subseteq Opened \ {t}
    BY <1>1, <1>5, <2>4, TabFacts
  <2>9. QED
    BY <1>1, <1>2, <1>3, <2>4, <2>5, <2>6, <2>7, <2>8, TabStep
<1>8. QED
  BY <1>6, <1>7

(***************************************************************************)
(* Taking the first message: the last one stays the last.                  *)
(***************************************************************************)
LEMMA TailFacts ==
    ASSUME NEW q \in Seq(Message), q # <<>>
    PROVE  /\ Head(q) \in Message /\ Tail(q) \in Seq(Message)
           /\ Tail(q) = <<>> => Head(q) = q[Len(q)]
           /\ Tail(q) # <<>> => Tail(q)[Len(Tail(q))] = q[Len(q)]
<1>1. /\ Head(q) \in Message /\ Tail(q) \in Seq(Message) /\ Len(q) \in Nat \ {0}
      /\ Len(Tail(q)) = Len(q) - 1
      /\ \A n \in 1 .. Len(q) - 1 : Tail(q)[n] = q[n + 1]
  BY HeadTailProperties, EmptySeq, LenProperties
<1>2. Head(q) = q[1]
  OBVIOUS
<1>3. ASSUME Tail(q) = <<>> PROVE Len(q) = 1
  <2>1. Len(Tail(q)) = 0
    BY <1>3, EmptySeq
  <2>2. Len(q) - 1 = 0 /\ Len(q) \in Nat
    BY <1>1, <2>1
  <2>3. QED
    BY <2>2
<1>4. ASSUME Tail(q) # <<>> PROVE Tail(q)[Len(Tail(q))] = q[Len(q)]
  <2>1. Len(Tail(q)) \in Nat \ {0}
    BY <1>1, <1>4, EmptySeq
  <2>2. Len(q) - 1 \in 1 .. Len(q) - 1 /\ (Len(q) - 1) + 1 = Len(q)
    BY <1>1, <2>1
  <2>3. QED
    BY <1>1, <2>2
<1>5. QED
  BY <1>1, <1>2, <1>3, <1>4

(***************************************************************************)
(* The map after a heartbeat.                                              *)
(***************************************************************************)
LEMMA HeardFacts ==
    ASSUME NEW view \in Views, NEW s \in Tabs, NEW age \in Nat
    PROVE  /\ Heard(view, s, age) \in Views
           /\ DOMAIN Heard(view, s, age) = DOMAIN view \cup {s}
           /\ Heard(view, s, age)[s] = age
           /\ \A x \in DOMAIN view \ {s} : Heard(view, s, age)[x] = view[x]
<1>1. DOMAIN view \cup {s} \in SUBSET Tabs /\ \A x \in DOMAIN view : view[x] \in Nat
  BY ViewFacts
<1>2. /\ Heard(view, s, age) \in [DOMAIN view \cup {s} -> Nat]
      /\ Heard(view, s, age)[s] = age
      /\ \A x \in DOMAIN view \ {s} : Heard(view, s, age)[x] = view[x]
  BY <1>1 DEF Heard
<1>3. QED
  BY <1>1, <1>2, ViewIntro

LEMMA ReceiveStep ==
    ASSUME LifeInv, NEW s \in Tabs, NEW t \in Tabs, Receive(s, t)
    PROVE  LifeInv'
<1> DEFINE q == channel[s][t]
           m == Head(q)
           rest == [channel EXCEPT ![s][t] = Tail(@)]
           known == s \in DOMAIN tabs[t]
           lives == m.type = "tab-alive"
           domain == IF lives THEN DOMAIN tabs[t] \cup {s} ELSE DOMAIN tabs[t] \ {s}
<1>1. /\ t \in open /\ q # <<>> /\ UNCHANGED <<opened, open, sinceBeat, sinceClean>>
      /\ met' = IF lives THEN [met EXCEPT ![t] = @ \cup {s}] ELSE met
  BY DEF Receive
<1>2. /\ isPrimary \in [Tabs -> BOOLEAN] /\ sinceClean \in [Tabs -> 0 .. Limit]
      /\ met \in [Tabs -> SUBSET Tabs] /\ channel \in Channels /\ tabs \in [Tabs -> Views]
      /\ sinceBeat \in [Tabs -> 0 .. Limit]
  BY DEF LifeInv, Types
<1>3. s \in Opened /\ s # t
  BY <1>1 DEF LifeInv, Acquainted
<1>4. /\ m \in Message /\ Tail(q) \in Seq(Message)
      /\ Tail(q) = <<>> => m = q[Len(q)]
      /\ Tail(q) # <<>> => Tail(q)[Len(Tail(q))] = q[Len(q)]
  <2>1. q \in Seq(Message)
    BY <1>2 DEF Channels
  <2>2. QED
    BY <1>1, <2>1, TailFacts
<1>5. /\ m.type \in {"tab-alive", "tab-closed"} /\ m.age \in Nat /\ m.age <= MessageDelay
  BY <1>4, Numbers DEF Message
<1>6. /\ rest \in Channels /\ rest[s][t] = Tail(q)
      /\ \A u \in Tabs, v \in Tabs \ {t} : rest[u][v] = channel[u][v]
      /\ \A u \in Tabs \ {s} : rest[u][t] = channel[u][t]
  <2> DEFINE row == [channel[s] EXCEPT ![t] = Tail(q)]
  <2>1. rest = [channel EXCEPT ![s] = row]
    BY <1>2 DEF Channels
  <2>2. channel[s] \in [Tabs -> Seq(Message)]
    BY <1>2 DEF Channels
  <2>3. /\ row \in [Tabs -> Seq(Message)] /\ row[t] = Tail(q)
        /\ \A v \in Tabs \ {t} : row[v] = channel[s][v]
    BY <1>4, <2>2
  <2> HIDE DEF row, q, rest
  <2>4. rest \in Channels /\ rest[s] = row /\ \A u \in Tabs \ {s} : rest[u] = channel[u]
    BY <1>2, <2>1, <2>3 DEF Channels
  <2>5. QED
    BY <2>3, <2>4
<1>7. /\ met' \in [Tabs -> SUBSET Tabs]
      /\ \A u \in Tabs \ {t} : met'[u] = met[u]
      /\ met'[t] = IF lives THEN met[t] \cup {s} ELSE met[t]
  BY <1>1, <1>2
<1>8. tabs[t] \in Views /\ t \in DOMAIN tabs[t] /\ DOMAIN tabs[t] \subseteq Tabs
      /\ tabs[t] \in [DOMAIN tabs[t] -> Nat]
  BY <1>1, TabFacts, ViewFacts
<1>9. Types
  BY DEF LifeInv
<1>10. /\ lives /\ known =>
            /\ tabs' = [tabs EXCEPT ![t] = Heard(@, s, m.age)]
            /\ channel' = rest /\ UNCHANGED <<isPrimary, farewell>>
       /\ lives /\ ~known => Elect(t, Heard(tabs[t], s, m.age), rest)
       /\ ~lives /\ known => Elect(t, Left(tabs[t], s), rest)
       /\ ~lives /\ ~known => channel' = rest /\ UNCHANGED <<tabs, isPrimary, farewell>>
  BY DEF Receive
<1> HIDE DEF q, m, rest, known, lives, domain
<1>11. /\ tabs' \in [Tabs -> Views]
       /\ \A u \in Tabs \ {t} : tabs'[u] = tabs[u]
       /\ DOMAIN tabs'[t] = domain
       /\ \A x \in domain \ {t, s} : tabs'[t][x] = tabs[t][x]
       /\ lives => tabs'[t][s] = m.age
       /\ isPrimary' \in [Tabs -> BOOLEAN]
       /\ \A u \in Tabs \ {t} : isPrimary'[u] = isPrimary[u]
       /\ domain = {t} /\ met'[t] # {} => isPrimary'[t]
       /\ \/ channel' = rest /\ farewell' = farewell
          \/ channel' = [rest EXCEPT ![t] = Posted(t, "tab-alive")] /\ farewell' = Stays(t)
  <2>1. CASE lives
    <3> DEFINE view == Heard(tabs[t], s, m.age)
    <3>1. /\ view \in Views /\ DOMAIN view = domain /\ view[s] = m.age
          /\ \A x \in domain \ {s} : view[x] = tabs[t][x]
      <4>1. /\ view \in Views /\ DOMAIN view = DOMAIN tabs[t] \cup {s} /\ view[s] = m.age
            /\ \A x \in DOMAIN tabs[t] \ {s} : view[x] = tabs[t][x]
        <5> DEFINE before == tabs[t]
                   age == m.age
        <5>1. before \in Views /\ age \in Nat
          BY <1>5, <1>8
        <5> HIDE DEF before, age
        <5>2. /\ Heard(before, s, age) \in Views
              /\ DOMAIN Heard(before, s, age) = DOMAIN before \cup {s}
              /\ Heard(before, s, age)[s] = age
              /\ \A x \in DOMAIN before \ {s} : Heard(before, s, age)[x] = before[x]
          BY <5>1, HeardFacts
        <5>3. QED
          BY <5>2 DEF before, age
      <4> HIDE DEF view
      <4>2. domain = DOMAIN tabs[t] \cup {s}
        BY <2>1 DEF domain
      <4>3. QED
        BY <4>1, <4>2
    <3>2. domain # {t} /\ t \in domain
      BY <1>3, <1>8, <2>1 DEF domain
    <3>3. CASE known
      <4>1. tabs' = [tabs EXCEPT ![t] = view] /\ channel' = rest /\ UNCHANGED <<isPrimary, farewell>>
        BY <1>10, <2>1, <3>3
      <4> HIDE DEF view
      <4>2. /\ tabs' \in [Tabs -> Views] /\ tabs'[t] = view
            /\ \A u \in Tabs \ {t} : tabs'[u] = tabs[u]
        BY <1>2, <3>1, <4>1
      <4>3. QED
        BY <1>2, <3>1, <3>2, <4>1, <4>2
    <3>4. CASE ~known
      <4>1. Elect(t, view, rest)
        BY <1>10, <2>1, <3>4
      <4> HIDE DEF view
      <4>2. /\ tabs' \in [Tabs -> Views]
            /\ \A u \in Tabs \ {t} : tabs'[u] = tabs[u]
            /\ DOMAIN tabs'[t] = domain
            /\ \A x \in domain \ {t} : tabs'[t][x] = view[x]
            /\ isPrimary' = [isPrimary EXCEPT ![t] = Wins(t, view)]
            /\ \/ channel' = rest /\ farewell' = farewell
               \/ channel' = [rest EXCEPT ![t] = Posted(t, "tab-alive")] /\ farewell' = Stays(t)
        BY <1>6, <1>9, <3>1, <3>2, <4>1, ElectFacts
      <4>3. Wins(t, view) \in BOOLEAN
        BY DEF Wins
      <4>4. /\ isPrimary' \in [Tabs -> BOOLEAN]
            /\ \A u \in Tabs \ {t} : isPrimary'[u] = isPrimary[u]
        BY <1>2, <4>2, <4>3
      <4>5. s \in domain
        BY <2>1 DEF domain
      <4>6. QED
        BY <1>3, <3>1, <3>2, <4>2, <4>4, <4>5
    <3>5. QED
      BY <3>3, <3>4
  <2>2. CASE ~lives /\ known
    <3> DEFINE view == Left(tabs[t], s)
    <3>1. /\ view \in Views /\ DOMAIN view = domain
          /\ \A x \in domain : view[x] = tabs[t][x]
      BY <1>8, <2>2, RestrictFacts DEF domain, Left
    <3>2. t \in domain
      BY <1>3, <1>8, <2>2 DEF domain
    <3>3. Elect(t, view, rest)
      BY <1>10, <2>2
    <3> HIDE DEF view
    <3>4. /\ tabs' \in [Tabs -> Views]
          /\ \A u \in Tabs \ {t} : tabs'[u] = tabs[u]
          /\ DOMAIN tabs'[t] = domain
          /\ \A x \in domain \ {t} : tabs'[t][x] = view[x]
          /\ isPrimary' = [isPrimary EXCEPT ![t] = Wins(t, view)]
          /\ \/ channel' = rest /\ farewell' = farewell
             \/ channel' = [rest EXCEPT ![t] = Posted(t, "tab-alive")] /\ farewell' = Stays(t)
      BY <1>6, <1>9, <3>1, <3>2, <3>3, ElectFacts
    <3>5. Wins(t, view) \in BOOLEAN
      BY DEF Wins
    <3>6. /\ isPrimary' \in [Tabs -> BOOLEAN]
          /\ \A u \in Tabs \ {t} : isPrimary'[u] = isPrimary[u]
          /\ domain = {t} => isPrimary'[t]
      BY <1>2, <3>1, <3>4, <3>5, AloneWins
    <3>7. QED
      BY <2>2, <3>1, <3>4, <3>6
  <2>3. CASE ~lives /\ ~known
    <3>1. channel' = rest /\ UNCHANGED <<tabs, isPrimary, farewell>>
      BY <1>10, <2>3
    <3>2. domain = DOMAIN tabs[t] /\ met'[t] = met[t]
      BY <1>7, <2>3 DEF domain, known
    <3>3. DOMAIN tabs[t] = {t} /\ met[t] # {} => isPrimary[t]
      BY <1>1, TabFacts
    <3>4. QED
      BY <1>2, <2>3, <3>1, <3>2, <3>3
  <2>4. QED
    BY <2>1, <2>2, <2>3
<1>12. /\ t \in DOMAIN tabs'[t] /\ DOMAIN tabs'[t] \subseteq met'[t] \cup {t}
       /\ met'[t] \subseteq Opened \ {t}
  BY <1>1, <1>3, <1>7, <1>8, <1>11, TabFacts DEF domain
<1>13. \A x \in DOMAIN tabs'[t] \ {t} : tabs'[t][x] <= StaleTimeout + sinceClean'[t]
  <2>1. SUFFICES ASSUME NEW x \in domain \ {t}
                 PROVE  tabs'[t][x] <= StaleTimeout + sinceClean[t]
    BY <1>1, <1>11
  <2>2. CASE x = s
    <3>1. lives /\ tabs'[t][x] = m.age
      BY <1>11, <2>1, <2>2 DEF domain
    <3>2. sinceClean[t] \in Nat
      BY <1>2, Numbers
    <3>3. QED
      BY <1>5, <3>1, <3>2, Numbers
  <2>3. CASE x # s
    <3>1. x \in DOMAIN tabs[t] \ {t} /\ tabs'[t][x] = tabs[t][x]
      BY <1>11, <2>1, <2>3 DEF domain
    <3>2. QED
      BY <1>1, <3>1, TabFacts
  <2>4. QED
    BY <2>2, <2>3
<1>14. \A u \in open \ {t} : farewell[u] # "said" =>
          Fresh(u, tabs'[t], rest[u][t], met'[t], sinceBeat[u])
  <2>1. SUFFICES ASSUME NEW u \in open \ {t}, farewell[u] # "said"
                 PROVE  Fresh(u, tabs'[t], rest[u][t], met'[t], sinceBeat[u])
    OBVIOUS
  <2>2. Fresh(u, tabs[t], channel[u][t], met[t], sinceBeat[u]) /\ u \in Tabs
    BY <1>1, <2>1, TabFacts
  <2>3. CASE u # s
    <3>1. Fresh(u, tabs'[t], channel[u][t], met[t], sinceBeat[u])
      BY <1>11, <2>1, <2>2, <2>3, FreshSame DEF domain
    <3>2. rest[u][t] = channel[u][t] /\ (u \in met'[t] <=> u \in met[t])
      BY <1>6, <1>7, <2>2, <2>3
    <3>3. QED
      BY <3>1, <3>2 DEF Fresh
  <2>4. CASE u = s
    <3>1. q[Len(q)].type = "tab-alive" /\ q[Len(q)].age <= sinceBeat[s]
      BY <1>1, <2>2, <2>4 DEF Fresh, q
    <3>2. CASE Tail(q) = <<>>
      <4>1. lives /\ m.age <= sinceBeat[s]
        BY <1>4, <3>1, <3>2 DEF lives
      <4>2. s \in DOMAIN tabs'[t] /\ tabs'[t][s] <= sinceBeat[s]
        BY <1>11, <4>1 DEF domain
      <4>3. QED
        BY <1>6, <2>4, <3>2, <4>2 DEF Fresh
    <3>3. CASE Tail(q) # <<>>
      BY <1>4, <1>6, <2>4, <3>1, <3>3 DEF Fresh
    <3>4. QED
      BY <3>2, <3>3
  <2>5. QED
    BY <2>3, <2>4
<1>15. \A u \in Tabs : rest[u][t] # <<>> => channel[u][t] # <<>>
  BY <1>1, <1>6 DEF q
<1>16. DOMAIN tabs'[t] = {t} /\ met'[t] # {} => isPrimary'[t]
  BY <1>11
<1>17. /\ t \in open /\ UNCHANGED <<opened, open>>
       /\ sinceBeat' \in [Tabs -> 0 .. Limit] /\ sinceBeat' = sinceBeat
       /\ sinceClean' \in [Tabs -> 0 .. Limit] /\ sinceClean' = sinceClean
  BY <1>1, <1>2
<1>18. \A u \in Tabs \ {t} : /\ tabs'[u] = tabs[u] /\ isPrimary'[u] = isPrimary[u]
                            /\ sinceBeat'[u] = sinceBeat[u] /\ met'[u] = met[u]
                            /\ sinceClean'[u] = sinceClean[u]
  BY <1>7, <1>11, <1>17
<1>19. /\ tabs' \in [Tabs -> Views] /\ isPrimary' \in [Tabs -> BOOLEAN]
       /\ met' \in [Tabs -> SUBSET Tabs] /\ rest \in Channels
       /\ \A u \in Tabs, v \in Tabs \ {t} : rest[u][v] = channel[u][v]
       /\ \/ channel' = rest /\ farewell' = farewell /\ sinceBeat'[t] = sinceBeat[t]
          \/ channel' = [rest EXCEPT ![t] = Posted(t, "tab-alive")] /\ farewell' = Stays(t)
  BY <1>6, <1>7, <1>11, <1>17
<1>20. QED
  BY <1>12, <1>13, <1>14, <1>15, <1>16, <1>17, <1>18, <1>19, TabStep

(***************************************************************************)
(* A new tab: nobody has heard of it, and it has met nobody.               *)
(***************************************************************************)
LEMMA OpenStep ==
    ASSUME LifeInv, NEW t \in Tabs, Open(t)
    PROVE  LifeInv'
<1>1. /\ t \notin Opened /\ opened' = Append(opened, t) /\ open' = open \cup {t}
      /\ tabs' = [tabs EXCEPT ![t] = [x \in {t} |-> 0]]
      /\ channel' = [channel EXCEPT ![t] = Posted(t, "tab-alive")]
      /\ UNCHANGED <<isPrimary, sinceBeat, sinceClean, farewell, met>>
  BY DEF Open
<1>2. /\ opened \in Seq(Tabs) /\ open \subseteq Opened /\ Opened \subseteq Tabs
      /\ tabs \in [Tabs -> Views] /\ channel \in Channels
      /\ sinceBeat \in [Tabs -> 0 .. Limit]
  BY DEF LifeInv, Types, Opened
<1>3. t \notin open /\ met[t] = {} /\ \A u \in Tabs : channel[u][t] = <<>>
  BY <1>1, <1>2 DEF LifeInv, Acquainted
<1>4. opened' \in Seq(Tabs) /\ Opened' = Opened \cup {t}
  <2>1. /\ opened' \in Seq(Tabs) /\ Len(opened') = Len(opened) + 1
        /\ \A n \in 1 .. Len(opened) : opened'[n] = opened[n]
        /\ opened'[Len(opened) + 1] = t
    BY <1>1, <1>2, AppendProperties
  <2>2. /\ DOMAIN opened = 1 .. Len(opened) /\ DOMAIN opened' = 1 .. Len(opened) + 1
        /\ Len(opened) \in Nat
    BY <1>2, <2>1, LenProperties
  <2>3. QED
    BY <2>1, <2>2 DEF Opened
<1>5. /\ tabs' \in [Tabs -> Views] /\ DOMAIN tabs'[t] = {t}
      /\ \A s \in Tabs \ {t} : tabs'[s] = tabs[s]
  <2> DEFINE own == [x \in {t} |-> 0]
  <2>1. own \in Views /\ DOMAIN own = {t}
    <3>1. own \in [{t} -> Nat]
      OBVIOUS
    <3>2. QED
      BY <3>1, ViewIntro
  <2>2. tabs' = [tabs EXCEPT ![t] = own]
    BY <1>1
  <2> HIDE DEF own
  <2>3. QED
    BY <1>2, <2>1, <2>2
<1>6. /\ channel' \in Channels
      /\ \A u \in Tabs \ {t}, r \in Tabs : channel'[u][r] = channel[u][r]
      /\ \A r \in Tabs \ open : channel'[t][r] = channel[t][r]
      /\ \A r \in open : /\ channel'[t][r] # <<>>
                         /\ channel'[t][r][Len(channel'[t][r])].type = "tab-alive"
                         /\ channel'[t][r][Len(channel'[t][r])].age = 0
  <2>1. /\ Posted(t, "tab-alive") \in [Tabs -> Seq(Message)]
        /\ \A r \in Tabs \ (open \ {t}) : Posted(t, "tab-alive")[r] = channel[t][r]
        /\ \A r \in Tabs \cap open : r # t =>
              /\ Posted(t, "tab-alive")[r] # <<>>
              /\ Posted(t, "tab-alive")[r][Len(Posted(t, "tab-alive")[r])].type = "tab-alive"
              /\ Posted(t, "tab-alive")[r][Len(Posted(t, "tab-alive")[r])].age = 0
    BY <1>2, PostedFacts
  <2>2. /\ channel' \in Channels /\ channel'[t] = Posted(t, "tab-alive")
        /\ \A u \in Tabs \ {t} : channel'[u] = channel[u]
    BY <1>1, <1>2, <2>1 DEF Channels
  <2>3. QED
    BY <1>2, <1>3, <2>1, <2>2
<1>7. Types'
  BY <1>1, <1>2, <1>4, <1>5, <1>6 DEF LifeInv, Types
<1>8. Acquainted'
  <2>1. ASSUME NEW s \in Tabs
        PROVE  /\ s \in open' => s \in DOMAIN tabs'[s]
               /\ s \notin open' => met'[s] = {} /\ DOMAIN tabs'[s] = {}
               /\ DOMAIN tabs'[s] \subseteq met'[s] \cup {s}
               /\ met'[s] \subseteq Opened' \ {s}
    <3>1. CASE s = t
      BY <1>1, <1>3, <1>5, <3>1
    <3>2. CASE s # t
      BY <1>1, <1>4, <1>5, <3>2 DEF LifeInv, Acquainted
    <3>3. QED
      BY <3>1, <3>2
  <2>2. ASSUME NEW u \in Tabs, NEW s \in Tabs, channel'[u][s] # <<>>
        PROVE  u \in Opened' /\ s \in open' /\ u # s
    <3>1. CASE channel[u][s] # <<>>
      BY <1>1, <1>4, <3>1 DEF LifeInv, Acquainted
    <3>2. CASE channel[u][s] = <<>>
      <4>1. u = t /\ s \in open
        BY <1>6, <2>2, <3>2
      <4>2. QED
        BY <1>1, <1>3, <1>4, <4>1
    <3>3. QED
      BY <3>1, <3>2
  <2>3. QED
    BY <2>1, <2>2 DEF Acquainted
<1>9. Alive'
  <2>1. SUFFICES ASSUME NEW s \in open', NEW u \in open', s # u, farewell'[u] # "said"
                 PROVE  Fresh(u, tabs'[s], channel'[u][s], met'[s], sinceBeat'[u])
    BY DEF Alive, UpToDate
  <2>2. s \in Tabs /\ u \in Tabs /\ sinceBeat'[u] \in 0 .. Limit
    BY <1>1, <1>2
  <2>3. CASE u = t
    <3>1. s \in open
      BY <1>1, <2>1, <2>3
    <3>2. QED
      BY <1>6, <2>2, <2>3, <3>1, Numbers DEF Fresh
  <2>4. CASE s = t
    <3>1. channel'[u][s] = <<>> /\ met'[s] = {}
      BY <1>1, <1>3, <1>6, <2>1, <2>2, <2>4
    <3>2. QED
      BY <3>1 DEF Fresh
  <2>5. CASE u # t /\ s # t
    <3>1. UpToDate(s, u)
      BY <1>1, <2>1, <2>5 DEF LifeInv, Alive
    <3>2. channel'[u][s] = channel[u][s] /\ tabs'[s] = tabs[s]
      BY <1>5, <1>6, <2>2, <2>5
    <3>3. QED
      BY <1>1, <3>1, <3>2 DEF UpToDate
  <2>6. QED
    BY <2>3, <2>4, <2>5
<1>10. Cleaned' /\ LoneSurvivorLeads'
  <2>1. ASSUME NEW s \in open', s # t
        PROVE  s \in open /\ tabs'[s] = tabs[s]
    BY <1>1, <1>2, <1>5, <2>1
  <2>2. Cleaned'
    BY <1>1, <1>5, <2>1 DEF LifeInv, Cleaned
  <2>3. LoneSurvivorLeads'
    BY <1>1, <1>3, <2>1 DEF LifeInv, LoneSurvivorLeads
  <2>4. QED
    BY <2>2, <2>3
<1>11. QED
  BY <1>7, <1>8, <1>9, <1>10 DEF LifeInv

(***************************************************************************)
(* After the farewell of t nothing is said of what others know of t.       *)
(***************************************************************************)
LEMMA BeforeUnloadStep ==
    ASSUME LifeInv, NEW t \in Tabs, BeforeUnload(t)
    PROVE  LifeInv'
<1>1. /\ t \in open /\ farewell' = [farewell EXCEPT ![t] = "said"]
      /\ channel' = [channel EXCEPT ![t] = Posted(t, "tab-closed")]
      /\ UNCHANGED <<opened, open, tabs, isPrimary, sinceBeat, sinceClean, met>>
  BY DEF BeforeUnload
<1>2. /\ open \subseteq Opened /\ Opened \subseteq Tabs /\ channel \in Channels
      /\ farewell \in [Tabs -> {"none", "said", "stayed"}]
  BY DEF LifeInv, Types, Opened
<1>3. /\ channel' \in Channels
      /\ \A u \in Tabs \ {t} : channel'[u] = channel[u]
      /\ \A r \in Tabs \ (open \ {t}) : channel'[t][r] = channel[t][r]
  <2>1. /\ Posted(t, "tab-closed") \in [Tabs -> Seq(Message)]
        /\ \A r \in Tabs \ (open \ {t}) : Posted(t, "tab-closed")[r] = channel[t][r]
    BY <1>2, PostedFacts
  <2>2. QED
    BY <1>1, <1>2, <2>1 DEF Channels
<1>4. farewell' \in [Tabs -> {"none", "said", "stayed"}] /\ farewell'[t] = "said"
      /\ \A u \in Tabs \ {t} : farewell'[u] = farewell[u]
  BY <1>1, <1>2
<1>5. UNCHANGED Opened
  BY <1>1 DEF Opened
<1>6. Types'
  BY <1>1, <1>3, <1>4, <1>5 DEF LifeInv, Types
<1>7. Acquainted'
  <2>1. ASSUME NEW u \in Tabs, NEW s \in Tabs, channel'[u][s] # <<>>
        PROVE  u \in Opened /\ s \in open /\ u # s
    <3>1. CASE channel[u][s] # <<>>
      BY <3>1 DEF LifeInv, Acquainted
    <3>2. CASE channel[u][s] = <<>>
      <4>1. u = t /\ s \in open \ {t}
        BY <1>3, <2>1, <3>2
      <4>2. QED
        BY <1>1, <1>2, <4>1
    <3>3. QED
      BY <3>1, <3>2
  <2>2. QED
    BY <1>1, <1>5, <2>1 DEF LifeInv, Acquainted
<1>8. Alive'
  <2>1. SUFFICES ASSUME NEW s \in open, NEW u \in open, s # u, farewell'[u] # "said"
                 PROVE  Fresh(u, tabs'[s], channel'[u][s], met'[s], sinceBeat'[u])
    BY <1>1 DEF Alive, UpToDate
  <2>2. u # t /\ farewell[u] # "said" /\ channel'[u] = channel[u]
    BY <1>2, <1>3, <1>4, <2>1
  <2>3. UpToDate(s, u)
    BY <2>1, <2>2 DEF LifeInv, Alive
  <2>4. QED
    BY <1>1, <2>2, <2>3 DEF UpToDate
<1>9. Cleaned' /\ LoneSurvivorLeads'
  BY <1>1 DEF LifeInv, Cleaned, LoneSurvivorLeads
<1>10. QED
  BY <1>6, <1>7, <1>8, <1>9 DEF LifeInv

(***************************************************************************)
(* A tab that is gone; what it has posted still travels.                   *)
(***************************************************************************)
LEMMA VanishStep ==
    ASSUME LifeInv, NEW t \in Tabs, Vanish(t)
    PROVE  LifeInv'
<1>1. /\ t \in open /\ open' = open \ {t} /\ opened' = opened
      /\ tabs' = [tabs EXCEPT ![t] = NoTabs]
      /\ isPrimary' = [isPrimary EXCEPT ![t] = FALSE]
      /\ sinceBeat' = [sinceBeat EXCEPT ![t] = 0]
      /\ sinceClean' = [sinceClean EXCEPT ![t] = 0]
      /\ channel' = [s \in Tabs |-> [channel[s] EXCEPT ![t] = <<>>]]
      /\ farewell' = [farewell EXCEPT ![t] = "none"]
      /\ met' = [met EXCEPT ![t] = {}]
  BY DEF Vanish
<1>2. /\ open \subseteq Opened /\ Opened \subseteq Tabs /\ channel \in Channels
      /\ tabs \in [Tabs -> Views] /\ isPrimary \in [Tabs -> BOOLEAN]
      /\ sinceBeat \in [Tabs -> 0 .. Limit] /\ sinceClean \in [Tabs -> 0 .. Limit]
      /\ farewell \in [Tabs -> {"none", "said", "stayed"}]
      /\ met \in [Tabs -> SUBSET Tabs]
  BY DEF LifeInv, Types, Opened
<1>3. /\ tabs' \in [Tabs -> Views] /\ DOMAIN tabs'[t] = {}
      /\ \A s \in Tabs \ {t} : tabs'[s] = tabs[s]
  <2>1. NoTabs \in Views /\ DOMAIN NoTabs = {}
    <3>1. NoTabs \in [{} -> Nat]
      BY DEF NoTabs
    <3>2. QED
      BY <3>1, ViewIntro
  <2>2. QED
    BY <1>1, <1>2, <2>1
<1>4. /\ channel' \in Channels
      /\ \A u \in Tabs : channel'[u][t] = <<>>
      /\ \A u \in Tabs, r \in Tabs \ {t} : channel'[u][r] = channel[u][r]
  BY <1>1, <1>2 DEF Channels
<1>5. UNCHANGED Opened
  BY <1>1 DEF Opened
<1>6. /\ isPrimary' \in [Tabs -> BOOLEAN]
      /\ sinceBeat' \in [Tabs -> 0 .. Limit] /\ sinceClean' \in [Tabs -> 0 .. Limit]
      /\ farewell' \in [Tabs -> {"none", "said", "stayed"}]
      /\ met' \in [Tabs -> SUBSET Tabs] /\ met'[t] = {}
      /\ \A s \in Tabs \ {t} :
           /\ isPrimary'[s] = isPrimary[s] /\ sinceBeat'[s] = sinceBeat[s]
           /\ sinceClean'[s] = sinceClean[s] /\ farewell'[s] = farewell[s]
           /\ met'[s] = met[s]
  BY <1>1, <1>2, Numbers
<1>7. Types'
  BY <1>1, <1>2, <1>3, <1>4, <1>5, <1>6 DEF LifeInv, Types
<1>8. Acquainted'
  <2>1. ASSUME NEW s \in Tabs
        PROVE  /\ s \in open' => s \in DOMAIN tabs'[s]
               /\ s \notin open' => met'[s] = {} /\ DOMAIN tabs'[s] = {}
               /\ DOMAIN tabs'[s] \subseteq met'[s] \cup {s}
               /\ met'[s] \subseteq Opened \ {s}
    <3>1. CASE s = t
      BY <1>1, <1>3, <1>6, <3>1
    <3>2. CASE s # t
      BY <1>1, <1>3, <1>6, <3>2 DEF LifeInv, Acquainted
    <3>3. QED
      BY <3>1, <3>2
  <2>2. ASSUME NEW u \in Tabs, NEW s \in Tabs, channel'[u][s] # <<>>
        PROVE  u \in Opened /\ s \in open' /\ u # s
    <3>1. s # t /\ channel[u][s] # <<>>
      BY <1>4, <2>2
    <3>2. QED
      BY <1>1, <3>1 DEF LifeInv, Acquainted
  <2>3. QED
    BY <1>5, <2>1, <2>2 DEF Acquainted
<1>9. ASSUME NEW s \in open'
      PROVE  s \in open /\ s \in Tabs \ {t}
  BY <1>1, <1>2
<1>10. Alive'
  <2>1. SUFFICES ASSUME NEW s \in open', NEW u \in open', s # u, farewell'[u] # "said"
                 PROVE  Fresh(u, tabs'[s], channel'[u][s], met'[s], sinceBeat'[u])
    BY DEF Alive, UpToDate
  <2>2. s \in open /\ u \in open /\ s \in Tabs \ {t} /\ u \in Tabs \ {t}
    BY <1>9
  <2>3. UpToDate(s, u)
    BY <1>6, <2>1, <2>2 DEF LifeInv, Alive
  <2>4. QED
    BY <1>3, <1>4, <1>6, <2>2, <2>3 DEF UpToDate
<1>11. Cleaned'
  BY <1>3, <1>6, <1>9 DEF LifeInv, Cleaned
<1>12. LoneSurvivorLeads'
  BY <1>3, <1>6, <1>9 DEF LifeInv, LoneSurvivorLeads
<1>13. QED
  BY <1>7, <1>8, <1>10, <1>11, <1>12 DEF LifeInv

(***************************************************************************)
(* Messages and maps that grow older.                                      *)
(***************************************************************************)
LEMMA OlderFacts ==
    ASSUME NEW q \in Seq(Message), \A n \in DOMAIN q : q[n].age < MessageDelay
    PROVE  /\ Older(q) \in Seq(Message)
           /\ Older(q) = <<>> <=> q = <<>>
           /\ q # <<>> => /\ Older(q)[Len(Older(q))].type = q[Len(q)].type
                          /\ Older(q)[Len(Older(q))].age = q[Len(q)].age + 1
                          /\ q[Len(q)].age \in Nat
<1>1. /\ Len(q) \in Nat /\ DOMAIN q = 1 .. Len(q)
      /\ \A n \in 1 .. Len(q) : q[n] \in Message
  BY LenProperties
<1>2. ASSUME NEW n \in 1 .. Len(q)
      PROVE  /\ [q[n] EXCEPT !.age = @ + 1] \in Message
             /\ [q[n] EXCEPT !.age = @ + 1].type = q[n].type
             /\ [q[n] EXCEPT !.age = @ + 1].age = q[n].age + 1
             /\ q[n].age \in Nat
  <2> DEFINE m == q[n]
  <2>1. m \in Message /\ m.age < MessageDelay
    BY <1>1
  <2> HIDE DEF m
  <2>2. m.age \in 0 .. MessageDelay /\ m.age + 1 \in 0 .. MessageDelay /\ m.age \in Nat
    BY <2>1, Numbers DEF Message
  <2>3. /\ [m EXCEPT !.age = @ + 1] \in Message
        /\ [m EXCEPT !.age = @ + 1].type = m.type
        /\ [m EXCEPT !.age = @ + 1].age = m.age + 1
    BY <2>1, <2>2 DEF Message
  <2>4. QED
    BY <2>2, <2>3 DEF m
<1>3. Older(q) \in [1 .. Len(q) -> Message]
  BY <1>1, <1>2 DEF Older
<1>4. Older(q) \in Seq(Message) /\ Len(Older(q)) = Len(q)
  <2>1. Older(q) \in Seq(Message)
    BY <1>1, <1>3, SeqDef
  <2>2. QED
    BY <1>1, <1>3, <2>1, LenProperties
<1>5. Older(q) = <<>> <=> q = <<>>
  BY <1>4, EmptySeq
<1>6. ASSUME q # <<>> PROVE Len(q) \in 1 .. Len(q)
  BY <1>1, <1>6, EmptySeq
<1>7. \A n \in 1 .. Len(q) : Older(q)[n] = [q[n] EXCEPT !.age = @ + 1]
  BY <1>1 DEF Older
<1>8. QED
  BY <1>2, <1>4, <1>5, <1>6, <1>7

LEMMA GrownFacts ==
    ASSUME NEW view \in Views
    PROVE  /\ [x \in DOMAIN view |-> view[x] + 1] \in Views
           /\ \A x \in DOMAIN view : view[x] \in Nat
<1>1. DOMAIN view \in SUBSET Tabs /\ \A x \in DOMAIN view : view[x] \in Nat
  BY ViewFacts
<1>2. [x \in DOMAIN view |-> view[x] + 1] \in [DOMAIN view -> Nat]
  BY <1>1
<1>3. QED
  BY <1>1, <1>2, ViewIntro

(***************************************************************************)
(* Time passes: what a tab knows of another ages no faster than the timer  *)
(* of the other.                                                           *)
(***************************************************************************)
LEMMA TickStep ==
    ASSUME LifeInv, Tick
    PROVE  LifeInv'
<1>1. /\ \A t \in open : sinceBeat[t] < Limit /\ sinceClean[t] < Limit
      /\ \A s, r \in Tabs : \A n \in DOMAIN channel[s][r] : channel[s][r][n].age < MessageDelay
      /\ tabs' = [t \in Tabs |-> [x \in DOMAIN tabs[t] |-> tabs[t][x] + 1]]
      /\ sinceBeat' = [t \in Tabs |-> IF t \in open THEN sinceBeat[t] + 1 ELSE 0]
      /\ sinceClean' = [t \in Tabs |-> IF t \in open THEN sinceClean[t] + 1 ELSE 0]
      /\ channel' = [s \in Tabs |-> [r \in Tabs |-> Older(channel[s][r])]]
      /\ UNCHANGED <<opened, open, isPrimary, farewell, met>>
  BY DEF Tick, Limit
<1>2. /\ open \subseteq Tabs /\ tabs \in [Tabs -> Views] /\ channel \in Channels
      /\ sinceBeat \in [Tabs -> 0 .. Limit] /\ sinceClean \in [Tabs -> 0 .. Limit]
  BY DEF LifeInv, Types, Opened
<1>3. UNCHANGED Opened
  BY <1>1 DEF Opened
<1>4. ASSUME NEW s \in Tabs, NEW r \in Tabs
      PROVE  /\ channel'[s][r] \in Seq(Message)
             /\ channel'[s][r] = <<>> <=> channel[s][r] = <<>>
             /\ channel[s][r] # <<>> =>
                  /\ channel'[s][r][Len(channel'[s][r])].type
                       = channel[s][r][Len(channel[s][r])].type
                  /\ channel'[s][r][Len(channel'[s][r])].age
                       = channel[s][r][Len(channel[s][r])].age + 1
                  /\ channel[s][r][Len(channel[s][r])].age \in Nat
  <2> DEFINE q == channel[s][r]
  <2>1. q \in Seq(Message) /\ \A n \in DOMAIN q : q[n].age < MessageDelay
    BY <1>1, <1>2 DEF Channels
  <2>2. channel'[s][r] = Older(q)
    BY <1>1
  <2> HIDE DEF q
  <2>3. /\ Older(q) \in Seq(Message)
        /\ Older(q) = <<>> <=> q = <<>>
        /\ q # <<>> => /\ Older(q)[Len(Older(q))].type = q[Len(q)].type
                       /\ Older(q)[Len(Older(q))].age = q[Len(q)].age + 1
                       /\ q[Len(q)].age \in Nat
    BY <2>1, OlderFacts
  <2>4. QED
    BY <2>2, <2>3 DEF q
<1>5. ASSUME NEW t \in Tabs
      PROVE  /\ tabs'[t] \in Views /\ DOMAIN tabs'[t] = DOMAIN tabs[t]
             /\ \A x \in DOMAIN tabs[t] : tabs'[t][x] = tabs[t][x] + 1 /\ tabs[t][x] \in Nat
  <2> DEFINE view == tabs[t]
  <2>1. view \in Views /\ tabs'[t] = [x \in DOMAIN view |-> view[x] + 1]
    BY <1>1, <1>2
  <2> HIDE DEF view
  <2>2. /\ tabs'[t] \in Views /\ DOMAIN tabs'[t] = DOMAIN view
        /\ \A x \in DOMAIN view : tabs'[t][x] = view[x] + 1 /\ view[x] \in Nat
    BY <2>1, GrownFacts
  <2>3. QED
    BY <2>2 DEF view
<1>6. \A t \in open : /\ sinceBeat'[t] = sinceBeat[t] + 1 /\ sinceClean'[t] = sinceClean[t] + 1
                     /\ sinceBeat[t] \in Nat /\ sinceClean[t] \in Nat
  BY <1>1, <1>2, Numbers
<1>7. sinceBeat' \in [Tabs -> 0 .. Limit] /\ sinceClean' \in [Tabs -> 0 .. Limit]
  BY <1>1, <1>2, Numbers
<1>8. tabs' \in [Tabs -> Views] /\ channel' \in Channels
  <2>1. tabs' \in [Tabs -> Views]
    <3>1. tabs' = [t \in Tabs |-> tabs'[t]]
      BY <1>1
    <3>2. QED
      BY <1>5, <3>1
  <2>2. channel' \in Channels
    <3>1. \A s \in Tabs : channel'[s] \in [Tabs -> Seq(Message)]
      <4>1. \A s \in Tabs : channel'[s] = [r \in Tabs |-> channel'[s][r]]
        BY <1>1
      <4>2. QED
        BY <1>4, <4>1
    <3>2. channel' = [s \in Tabs |-> channel'[s]]
      BY <1>1
    <3>3. QED
      BY <3>1, <3>2 DEF Channels
  <2>3. QED
    BY <2>1, <2>2
<1>9. Types'
  BY <1>1, <1>3, <1>7, <1>8 DEF LifeInv, Types
<1>10. Acquainted'
  BY <1>1, <1>3, <1>4, <1>5 DEF LifeInv, Acquainted
<1>11. Alive'
  <2>1. SUFFICES ASSUME NEW s \in open, NEW u \in open, s # u, farewell[u] # "said"
                 PROVE  Fresh(u, tabs'[s], channel'[u][s], met[s], sinceBeat'[u])
    BY <1>1 DEF Alive, UpToDate
  <2>2. s \in Tabs /\ u \in Tabs
    BY <1>2
  <2>3. Fresh(u, tabs[s], channel[u][s], met[s], sinceBeat[u])
    BY <2>1 DEF LifeInv, Alive, UpToDate
  <2>4. sinceBeat'[u] = sinceBeat[u] + 1 /\ sinceBeat[u] \in Nat
    BY <1>6
  <2>5. CASE channel[u][s] = <<>>
    <3>1. channel'[u][s] = <<>>
      BY <1>4, <2>2, <2>5
    <3>2. CASE u \in met[s]
      <4>1. u \in DOMAIN tabs[s] /\ tabs[s][u] <= sinceBeat[u]
        BY <2>3, <2>5, <3>2 DEF Fresh
      <4>2. u \in DOMAIN tabs'[s] /\ tabs'[s][u] = tabs[s][u] + 1 /\ tabs[s][u] \in Nat
        BY <1>5, <2>2, <4>1
      <4>3. tabs'[s][u] <= sinceBeat'[u]
        BY <2>4, <4>1, <4>2
      <4>4. QED
        BY <3>1, <4>2, <4>3 DEF Fresh
    <3>3. CASE u \notin met[s]
      BY <3>1, <3>3 DEF Fresh
    <3>4. QED
      BY <3>2, <3>3
  <2>6. CASE channel[u][s] # <<>>
    <3>1. /\ channel[u][s][Len(channel[u][s])].type = "tab-alive"
          /\ channel[u][s][Len(channel[u][s])].age <= sinceBeat[u]
      BY <2>3, <2>6 DEF Fresh
    <3>2. /\ channel'[u][s] # <<>>
          /\ channel'[u][s][Len(channel'[u][s])].type = "tab-alive"
          /\ channel'[u][s][Len(channel'[u][s])].age <= sinceBeat'[u]
      <4> DEFINE before == channel[u][s][Len(channel[u][s])]
                 after == channel'[u][s][Len(channel'[u][s])]
      <4>1. /\ channel'[u][s] # <<>> /\ after.type = before.type
            /\ after.age = before.age + 1 /\ before.age \in Nat
        BY <1>4, <2>2, <2>6
      <4>2. before.type = "tab-alive" /\ before.age <= sinceBeat[u]
        BY <3>1
      <4> HIDE DEF before, after
      <4>3. after.type = "tab-alive" /\ after.age <= sinceBeat'[u]
        BY <2>4, <4>1, <4>2
      <4>4. QED
        BY <4>1, <4>3 DEF after
    <3>3. QED
      BY <3>2 DEF Fresh
  <2>7. QED
    BY <2>5, <2>6
<1>12. Cleaned'
  <2>1. SUFFICES ASSUME NEW t \in open, NEW x \in DOMAIN tabs'[t] \ {t}
                 PROVE  tabs'[t][x] <= StaleTimeout + sinceClean'[t]
    BY <1>1 DEF Cleaned
  <2>2. t \in Tabs
    BY <1>2
  <2>3. x \in DOMAIN tabs[t] \ {t} /\ tabs'[t][x] = tabs[t][x] + 1 /\ tabs[t][x] \in Nat
    BY <1>5, <2>2
  <2>4. tabs[t][x] <= StaleTimeout + sinceClean[t]
    BY <2>3 DEF LifeInv, Cleaned
  <2>5. QED
    BY <1>6, <2>3, <2>4, Numbers
<1>13. LoneSurvivorLeads'
  BY <1>1, <1>2, <1>5 DEF LifeInv, LoneSurvivorLeads
<1>14. QED
  BY <1>9, <1>10, <1>11, <1>12, <1>13 DEF LifeInv

(***************************************************************************)
(* Every step keeps the invariant.                                         *)
(***************************************************************************)
LEMMA StutterLifeInv ==
    ASSUME LifeInv, UNCHANGED vars
    PROVE  LifeInv'
<1>1. /\ UNCHANGED <<opened, open, tabs, isPrimary, sinceBeat, sinceClean>>
      /\ UNCHANGED <<channel, farewell, met>>
  BY DEF vars
<1>2. UNCHANGED Opened
  BY <1>1 DEF Opened
<1>3. Types' /\ Acquainted'
  BY <1>1, <1>2 DEF LifeInv, Types, Acquainted
<1>4. Alive' /\ Cleaned' /\ LoneSurvivorLeads'
  BY <1>1 DEF LifeInv, Alive, UpToDate, Cleaned, LoneSurvivorLeads
<1>5. QED
  BY <1>3, <1>4 DEF LifeInv

LEMMA NextLifeInv == LifeInv /\ [Next]_vars => LifeInv'
<1> SUFFICES ASSUME LifeInv, [Next]_vars PROVE LifeInv'
  OBVIOUS
<1>1. CASE Tick
  BY <1>1, TickStep
<1>2. ASSUME NEW t \in Tabs, Open(t) PROVE LifeInv'
  BY <1>2, OpenStep
<1>3. ASSUME NEW t \in Tabs, BeforeUnload(t) PROVE LifeInv'
  BY <1>3, BeforeUnloadStep
<1>4. ASSUME NEW t \in Tabs, Vanish(t) PROVE LifeInv'
  BY <1>4, VanishStep
<1>5. ASSUME NEW t \in Tabs, Heartbeat(t) PROVE LifeInv'
  BY <1>5, HeartbeatStep
<1>6. ASSUME NEW t \in Tabs, Cleanup(t) PROVE LifeInv'
  BY <1>6, CleanupStep
<1>7. ASSUME NEW t \in Tabs, NEW s \in Tabs, Receive(s, t) PROVE LifeInv'
  BY <1>7, ReceiveStep
<1>8. CASE UNCHANGED vars
  BY <1>8, StutterLifeInv
<1>9. QED
  BY <1>1, <1>2, <1>3, <1>4, <1>5, <1>6, <1>7, <1>8 DEF Next

-----------------------------------------------------------------------------
\* The invariant holds of every behaviour of the tabs: the types, who has met whom, that
\* what is known of a live tab is no older than its last heartbeat, and that what the
\* cleanup timer finds is no older than its last round.
THEOREM LifeInvariance == Spec => []LifeInv
<1>1. Init => LifeInv
  BY InitLifeInv
<1>2. LifeInv /\ [Next]_vars => LifeInv'
  BY NextLifeInv
<1>3. QED
  BY <1>1, <1>2, PTL DEF Spec

\* All variables keep their types; the timers are never later than assumed.
THEOREM TypeCorrect == Spec => []TypeOK
<1>1. LifeInv => TypeOK
  <2> SUFFICES ASSUME LifeInv PROVE TypeOK
    OBVIOUS
  <2>1. open \subseteq Opened /\ Opened \subseteq Tabs /\ channel \in Channels
    BY DEF LifeInv, Types, Opened
  <2>2. ASSUME NEW t \in Tabs
        PROVE  /\ isPrimary[t] \in BOOLEAN
               /\ farewell[t] \in {"none", "said", "stayed"}
               /\ {sinceBeat[t], sinceClean[t]} \subseteq 0 .. HeartbeatInterval + TimerLateness
    BY DEF LifeInv, Types, Limit
  <2>3. ASSUME NEW t \in Tabs, NEW r \in Tabs, NEW n \in DOMAIN channel[t][r]
        PROVE  channel[t][r][n] \in [type : {"tab-alive", "tab-closed"}, age : 0 .. MessageDelay]
    <3> DEFINE q == channel[t][r]
    <3>1. q \in Seq(Message) /\ n \in DOMAIN q
      BY <2>1 DEF Channels
    <3> HIDE DEF q
    <3>2. q[n] \in Message
      BY <3>1, LenProperties
    <3>3. QED
      BY <3>2 DEF Message, q
  <2>4. QED
    BY <2>1, <2>2, <2>3 DEF TypeOK, LifeInv, Acquainted
<1>2. QED
  BY <1>1, LifeInvariance, PTL

\* cleanupStaleTabs drops no tab that is open and beats in time, for any number of tabs
\* and any intervals with HeartbeatInterval + TimerLateness + MessageDelay <= StaleTimeout.
THEOREM LiveTabsKeptHolds == Spec => []LiveTabsKept
<1>1. LifeInv => LiveTabsKept
  <2> SUFFICES ASSUME LifeInv, NEW s \in open, NEW t \in open, t \in met[s]
               PROVE  t \in DOMAIN tabs[s] \/ farewell[t] = "said" \/ channel[t][s] # <<>>
    BY DEF LiveTabsKept
  <2>1. open \subseteq Tabs
    BY DEF LifeInv, Types, Opened
  <2>2. s # t
    BY <2>1 DEF LifeInv, Acquainted
  <2>3. CASE farewell[t] # "said" /\ channel[t][s] = <<>>
    <3>1. UpToDate(s, t)
      BY <2>2, <2>3 DEF LifeInv, Alive
    <3>2. QED
      BY <2>3, <3>1 DEF UpToDate, Fresh
  <2>4. QED
    BY <2>3
<1>2. QED
  BY <1>1, LifeInvariance, PTL

\* The last tab of those that have heard of each other leads, whichever way the others went.
THEOREM LoneSurvivorLeadsHolds == Spec => []LoneSurvivorLeads
<1>1. LifeInv => LoneSurvivorLeads
  BY DEF LifeInv
<1>2. QED
  BY <1>1, LifeInvariance, PTL

\* A tab that is gone is forgotten after the timeout and one late round of the cleanup timer.
THEOREM GoneAreForgottenHolds == Spec => []GoneAreForgotten
<1>1. LifeInv => GoneAreForgotten
  <2> SUFFICES ASSUME LifeInv, NEW t \in open, NEW x \in DOMAIN tabs[t] \ {t}
               PROVE  tabs[t][x] <= StaleTimeout + HeartbeatInterval + TimerLateness
    BY DEF GoneAreForgotten
  <2>1. t \in Tabs
    BY DEF LifeInv, Types, Opened
  <2>2. tabs[t] \in Views /\ x \in DOMAIN tabs[t] /\ sinceClean[t] \in 0 .. Limit
    BY <2>1 DEF LifeInv, Types
  <2>3. tabs[t][x] \in Nat
    BY <2>2, ViewFacts
  <2>4. tabs[t][x] <= StaleTimeout + sinceClean[t]
    BY DEF LifeInv, Cleaned
  <2>5. QED
    BY <2>2, <2>3, <2>4, Numbers DEF Limit
<1>2. QED
  BY <1>1, LifeInvariance, PTL
=============================================================================
