----------------------------- MODULE TabLifecycle -----------------------------
(***************************************************************************)
(* The tabs of one browser: TabLifecycleManager                            *)
(* (frontend/src/lib/sync/tab-lifecycle.ts) over a BroadcastChannel        *)
(* (frontend/src/lib/sync/broadcast-sync.ts).                              *)
(*                                                                         *)
(* Each tab keeps a map of the tabs it has heard from and decides alone    *)
(* whether it is the primary one.  A tab may vanish without a word, and it *)
(* may announce that it closes and stay (the user cancels the unload).     *)
(*                                                                         *)
(* A time stamp is kept as its age.  Timers never fire early; they and the *)
(* messages may be late, by no more than TimerLateness and MessageDelay.   *)
(* Of the entries of a map only the heartbeat is kept: their isPrimary     *)
(* flags are displayed, and no decision reads them.  The channel is        *)
(* connected.  destroy() is not called by the application and left out.    *)
(***************************************************************************)
EXTENDS Naturals, Sequences, Functions

CONSTANTS
    Tabs,               \* ids of tabs; a tab that is reloaded gets a new one
    HeartbeatInterval,  \* options.heartbeatInterval
    StaleTimeout,       \* options.staleTimeout
    TimerLateness,      \* how late a timer may fire
    MessageDelay        \* how long a message may travel

ASSUME TabLifecycleAssumption ==
    /\ HeartbeatInterval \in Nat \ {0}
    /\ StaleTimeout \in Nat
    /\ TimerLateness \in Nat
    /\ MessageDelay \in Nat
    /\ HeartbeatInterval + TimerLateness + MessageDelay <= StaleTimeout

VARIABLES
    opened,     \* the tabs in the order in which they were opened
    open,       \* the tabs that are open
    tabs,       \* the map of each tab: the age of each tab's last known heartbeat
    isPrimary,  \* what each tab holds itself to be
    sinceBeat,  \* time since the heartbeat timer of a tab was armed
    sinceClean, \* time since its cleanup timer was armed
    channel,    \* messages under way, by sender and receiver
    farewell,   \* whether each tab announced to close, and has sent a heartbeat since
    met         \* history: the tabs whose heartbeat each tab has heard

vars == <<opened, open, tabs, isPrimary, sinceBeat, sinceClean, channel, farewell, met>>

Opened == {opened[n] : n \in DOMAIN opened}

NoTabs == [x \in {} |-> 0]

Init ==
    /\ opened = <<>>
    /\ open = {}
    /\ tabs = [t \in Tabs |-> NoTabs]
    /\ isPrimary = [t \in Tabs |-> FALSE]
    /\ sinceBeat = [t \in Tabs |-> 0]
    /\ sinceClean = [t \in Tabs |-> 0]
    /\ channel = [s \in Tabs |-> [r \in Tabs |-> <<>>]]
    /\ farewell = [t \in Tabs |-> "none"]
    /\ met = [t \in Tabs |-> {}]

-----------------------------------------------------------------------------
\* Mutated forms of definitions, named BugX for X, are what the runs must catch.

\* A channel that echoes.
BugPosted(s, type) ==
    [r \in Tabs |-> IF r \in open THEN Append(channel[s][r], [type |-> type, age |-> 0])
                    ELSE channel[s][r]]

\* The messages of s after it has posted one to the other tabs.
Posted(s, type) ==
    [r \in Tabs |-> IF r \in open \ {s} THEN Append(channel[s][r], [type |-> type, age |-> 0])
                    ELSE channel[s][r]]

\* A heartbeat after the farewell: the user has cancelled the unload.
Stays(t) == [farewell EXCEPT ![t] = IF @ = "said" THEN "stayed" ELSE @]

\* electPrimaryTab: the lowest lastHeartbeat wins, and the own entry, the first of the
\* map, wins a tie.
Wins(t, view) == \A x \in DOMAIN view : view[t] >= view[x]

\* The map of t becomes view, and t elects: a change of its own status goes out with a
\* heartbeat at once.  The channel is what is left of the messages under way.
Elect(t, view, rest) ==
    /\ isPrimary' = [isPrimary EXCEPT ![t] = Wins(t, view)]
    /\ IF Wins(t, view) # isPrimary[t]
       THEN /\ tabs' = [tabs EXCEPT ![t] = [view EXCEPT ![t] = 0]]
            /\ channel' = [rest EXCEPT ![t] = Posted(t, "tab-alive")]
            /\ farewell' = Stays(t)
       ELSE /\ tabs' = [tabs EXCEPT ![t] = view]
            /\ channel' = rest
            /\ UNCHANGED farewell

\* The constructor and start().
Open(t) ==
    /\ t \notin Opened
    /\ opened' = Append(opened, t)
    /\ open' = open \cup {t}
    /\ tabs' = [tabs EXCEPT ![t] = [x \in {t} |-> 0]]
    /\ channel' = [channel EXCEPT ![t] = Posted(t, "tab-alive")]
    /\ UNCHANGED <<isPrimary, sinceBeat, sinceClean, farewell, met>>

\* The heartbeat timer fires.
Heartbeat(t) ==
    /\ t \in open
    /\ sinceBeat[t] >= HeartbeatInterval
    /\ sinceBeat' = [sinceBeat EXCEPT ![t] = 0]
    /\ tabs' = [tabs EXCEPT ![t][t] = 0]
    /\ channel' = [channel EXCEPT ![t] = Posted(t, "tab-alive")]
    /\ farewell' = Stays(t)
    /\ UNCHANGED <<opened, open, isPrimary, sinceClean, met>>

\* One heartbeat interval taken for the timeout, and seconds taken for milliseconds.
BugIsStale(age) == age > HeartbeatInterval
BugUnitIsStale(age) == age > 1000 * StaleTimeout
IsStale(age) == age > StaleTimeout

\* Stale tabs are dropped without an election.
BugCleanup(t) ==
    /\ t \in open
    /\ sinceClean[t] >= HeartbeatInterval
    /\ sinceClean' = [sinceClean EXCEPT ![t] = 0]
    /\ tabs' = [tabs EXCEPT ![t] =
                  Restrict(@, {t} \cup {x \in DOMAIN @ : ~IsStale(@[x])})]
    /\ UNCHANGED <<opened, open, isPrimary, sinceBeat, channel, farewell, met>>

\* The cleanup timer fires: cleanupStaleTabs.
Cleanup(t) ==
    /\ t \in open
    /\ sinceClean[t] >= HeartbeatInterval
    /\ sinceClean' = [sinceClean EXCEPT ![t] = 0]
    /\ LET stale == {x \in DOMAIN tabs[t] \ {t} : IsStale(tabs[t][x])} IN
         IF stale = {}
         THEN UNCHANGED <<tabs, isPrimary, channel, farewell>>
         ELSE Elect(t, Restrict(tabs[t], DOMAIN tabs[t] \ stale), channel)
    /\ UNCHANGED <<opened, open, sinceBeat, met>>

\* The map after a heartbeat of s.
Heard(view, s, age) == [x \in DOMAIN view \cup {s} |-> IF x = s THEN age ELSE view[x]]

\* The map after the farewell of s.
Left(view, s) == Restrict(view, DOMAIN view \ {s})

\* The handlers of "tab-alive" and "tab-closed".
Receive(s, t) ==
    /\ t \in open /\ channel[s][t] # <<>>
    /\ LET m == Head(channel[s][t])
           rest == [channel EXCEPT ![s][t] = Tail(@)]
           known == s \in DOMAIN tabs[t]
       IN /\ IF m.type = "tab-alive"
             THEN IF known
                  THEN /\ tabs' = [tabs EXCEPT ![t] = Heard(@, s, m.age)]
                       /\ channel' = rest
                       /\ UNCHANGED <<isPrimary, farewell>>
                  ELSE Elect(t, Heard(tabs[t], s, m.age), rest)
             ELSE IF known
                  THEN Elect(t, Left(tabs[t], s), rest)
                  ELSE channel' = rest /\ UNCHANGED <<tabs, isPrimary, farewell>>
          /\ met' = IF m.type = "tab-alive" THEN [met EXCEPT ![t] = @ \cup {s}] ELSE met
    /\ UNCHANGED <<opened, open, sinceBeat, sinceClean>>

\* handleBeforeUnload: the tab says that it closes (at most once: a bound).
BeforeUnload(t) ==
    /\ t \in open /\ farewell[t] = "none"
    /\ farewell' = [farewell EXCEPT ![t] = "said"]
    /\ channel' = [channel EXCEPT ![t] = Posted(t, "tab-closed")]
    /\ UNCHANGED <<opened, open, tabs, isPrimary, sinceBeat, sinceClean, met>>

\* The tab is closed, after beforeunload, or crashes, or is discarded.
Vanish(t) ==
    /\ t \in open
    /\ open' = open \ {t}
    /\ tabs' = [tabs EXCEPT ![t] = NoTabs]
    /\ isPrimary' = [isPrimary EXCEPT ![t] = FALSE]
    /\ sinceBeat' = [sinceBeat EXCEPT ![t] = 0]
    /\ sinceClean' = [sinceClean EXCEPT ![t] = 0]
    /\ channel' = [s \in Tabs |-> [channel[s] EXCEPT ![t] = <<>>]]
    /\ farewell' = [farewell EXCEPT ![t] = "none"]
    /\ met' = [met EXCEPT ![t] = {}]
    /\ UNCHANGED opened

Older(messages) == [n \in DOMAIN messages |-> [messages[n] EXCEPT !.age = @ + 1]]

\* Time passes, unless a timer or a message is as late as can be.
Tick ==
    /\ \A t \in open : /\ sinceBeat[t] < HeartbeatInterval + TimerLateness
                       /\ sinceClean[t] < HeartbeatInterval + TimerLateness
    /\ \A s, r \in Tabs : \A n \in DOMAIN channel[s][r] : channel[s][r][n].age < MessageDelay
    /\ tabs' = [t \in Tabs |-> [x \in DOMAIN tabs[t] |-> tabs[t][x] + 1]]
    /\ sinceBeat' = [t \in Tabs |-> IF t \in open THEN sinceBeat[t] + 1 ELSE 0]
    /\ sinceClean' = [t \in Tabs |-> IF t \in open THEN sinceClean[t] + 1 ELSE 0]
    /\ channel' = [s \in Tabs |-> [r \in Tabs |-> Older(channel[s][r])]]
    /\ UNCHANGED <<opened, open, isPrimary, farewell, met>>

-----------------------------------------------------------------------------

Next ==
    \/ Tick
    \/ \E t \in Tabs : \/ Open(t) \/ BeforeUnload(t) \/ Vanish(t)
                       \/ Heartbeat(t) \/ Cleanup(t)
                       \/ \E s \in Tabs : Receive(s, t)

Spec == Init /\ [][Next]_vars

-----------------------------------------------------------------------------

\* The types of all variables.
TypeOK ==
    /\ open \subseteq Opened /\ Opened \subseteq Tabs
    /\ \A t \in Tabs :
         /\ isPrimary[t] \in BOOLEAN
         /\ farewell[t] \in {"none", "said", "stayed"}
         /\ {sinceBeat[t], sinceClean[t]} \subseteq 0 .. HeartbeatInterval + TimerLateness
         /\ t \in open => t \in DOMAIN tabs[t]
         /\ DOMAIN tabs[t] \subseteq met[t] \cup {t}
         /\ met[t] \subseteq Opened \ {t}
         /\ \A r \in Tabs : \A n \in DOMAIN channel[t][r] :
              channel[t][r][n] \in [type : {"tab-alive", "tab-closed"}, age : 0 .. MessageDelay]

\* As long as timers and messages are no later than assumed, no tab drops one that is
\* open: a tab once heard from is in the map, unless it announced to close and its next
\* heartbeat is still to come or under way.
LiveTabsKept ==
    \A s, t \in open :
        t \in met[s] => t \in DOMAIN tabs[s] \/ farewell[t] = "said" \/ channel[t][s] # <<>>

\* A tab that outlives all the others it has heard from, whether they said farewell or
\* crashed and in whichever order it learns of it, holds itself to be the primary one.
LoneSurvivorLeads ==
    \A t \in open : DOMAIN tabs[t] = {t} /\ met[t] # {} => isPrimary[t]

\* No entry of another tab outlives its last heartbeat by more than the timeout and one
\* late round of the cleanup timer: a tab that is gone is forgotten in that time.
GoneAreForgotten ==
    \A t \in open : \A x \in DOMAIN tabs[t] \ {t} :
        tabs[t][x] <= StaleTimeout + HeartbeatInterval + TimerLateness

=============================================================================
