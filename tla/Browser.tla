------------------------------ MODULE Browser ------------------------------
(***************************************************************************)
(* The processes of "Tabbed Webkit Browser": the router (router.c), which  *)
(* polls a pipe from every child and passes messages on, the controller    *)
(* (controller.c), in which the user asks for tabs and enters URIs, and a  *)
(* renderer for each tab (urlrenderer.c).  A process has two pipes to the  *)
(* router, its channel (comm_channel.c); windows (browser_window.c) says   *)
(* which channel leads to a tab.  Tab 0 is the controller.                 *)
(*                                                                         *)
(* Both ends of every pipe stay open in the router and in the children     *)
(* forked later, so nobody sees the end of a pipe, and a write blocks when *)
(* the pipe is full.  A process does in one step what it does from one     *)
(* access of a pipe to the next; the router's read and the write it leads  *)
(* to are one step, taken when there is room.  proc[t] is tab t's process: *)
(*    none      not forked yet                                             *)
(*    open      running                                                    *)
(*    closing   a renderer whose window the user has closed                *)
(*    dead      exited or crashed, and not waited for                      *)
(*    reaped                                                               *)
(***************************************************************************)
EXTENDS Integers, Sequences, FiniteSets

CONSTANTS
    UNRECLAIMED_TAB_COUNTER,    \* tabs and channels there can ever be
    PipeSize,                   \* messages a pipe holds
    NoTab,                      \* stands for a window or a target that is unset
    MaxUris, MaxClicks,         \* bounds on what the user does
    MaxCrashes, MaxForkFailures \* bounds on what goes wrong

ASSUME BoundsAssumption ==
    /\ UNRECLAIMED_TAB_COUNTER \in Nat \ {0} /\ PipeSize \in Nat \ {0}
    /\ {MaxUris, MaxClicks, MaxCrashes, MaxForkFailures} \subseteq Nat

Tab == 0 .. UNRECLAIMED_TAB_COUNTER - 1
Uri == 1 .. MaxUris

ASSUME NoTabAssumption == NoTab \notin Tab

VARIABLES
    next_chan, next_tab,
    valid,       \* valid[c]: the router has the pipes of channel c open
    windows,     \* windows[t]: the channel of tab t as the router has it
    up, down,    \* the pipes of a channel, child to router and back
    proc,
    ccid,        \* ccid[t]: the channel the process of tab t was given
    poll,        \* the channel the router looks at next
    running,     \* the router has not exited
    target,      \* target[u]: the tab entered with the URI u
    shown,       \* shown[t]: the URIs rendered in tab t, in order
    entered, clicks, forkfails,
    crashed      \* the tabs whose process has crashed

tables == <<next_chan, next_tab, valid, windows>>
pipes == <<up, down>>
user == <<target, entered, clicks>>
vars == <<tables, pipes, proc, ccid, poll, running, user, shown, forkfails, crashed>>

\* The controller has been forked.
Init ==
    /\ next_chan = 1 /\ next_tab = 1
    /\ valid = [c \in Tab |-> c = 0]
    /\ windows = [t \in Tab |-> IF t = 0 THEN 0 ELSE NoTab]
    /\ up = [c \in Tab |-> << >>] /\ down = [c \in Tab |-> << >>]
    /\ proc = [t \in Tab |-> IF t = 0 THEN "open" ELSE "none"]
    /\ ccid = [t \in Tab |-> IF t = 0 THEN 0 ELSE NoTab]
    /\ poll = 0 /\ running = TRUE
    /\ target = [u \in Uri |-> NoTab] /\ shown = [t \in Tab |-> << >>]
    /\ entered = 0 /\ clicks = 0 /\ forkfails = 0 /\ crashed = {}

NewUri(t, u) == [type |-> "NEW_URI_ENTERED", tab |-> t, uri |-> u]
CreateTab == [type |-> "CREATE_TAB", tab |-> 0]
TabKilled(t) == [type |-> "TAB_KILLED", tab |-> t]

HasRoom(pipe) == Len(pipe) < PipeSize

\* A process writes to its pipe to the router.
Send(t, msg) ==
    /\ HasRoom(up[ccid[t]])
    /\ up' = [up EXCEPT ![ccid[t]] = Append(@, msg)]
    /\ UNCHANGED <<tables, down, ccid, poll, running, shown, forkfails, crashed>>

-----------------------------------------------------------------------------
\* The controller: a URI is entered for a tab, whether there is one or not.
uri_entered_cb(t) ==
    /\ proc[0] = "open" /\ entered < MaxUris
    /\ Send(0, NewUri(t, entered + 1))
    /\ target' = [target EXCEPT ![entered + 1] = t]
    /\ entered' = entered + 1
    /\ UNCHANGED <<proc, clicks>>

new_tab_created_cb ==
    /\ proc[0] = "open" /\ clicks < MaxClicks
    /\ Send(0, CreateTab)
    /\ clicks' = clicks + 1
    /\ UNCHANGED <<proc, target, entered>>

\* A window is closed.  The controller ends at once, a renderer stays.
delete_window_cb(t) ==
    /\ proc[t] = "open"
    /\ Send(t, TabKilled(t))
    /\ proc' = [proc EXCEPT ![t] = IF t = 0 THEN "dead" ELSE "closing"]
    /\ UNCHANGED user

-----------------------------------------------------------------------------
\* Slip: a renderer whose window is closed reads no more.
Readable_OnlyOpen(t) == proc[t] = "open" /\ down[ccid[t]] # << >>

\* There is something to read for the renderer of tab t.
Readable(t) == proc[t] \in {"open", "closing"} /\ down[ccid[t]] # << >>

Read(t) ==
    /\ down' = [down EXCEPT ![ccid[t]] = Tail(@)]
    /\ UNCHANGED <<tables, up, ccid, poll, running, user, forkfails>>

\* The renderer gets a URI.  In a window that is closed, the page goes to a
\* view that has been destroyed, which may end the process.
RenderUri(t) ==
    /\ t # 0 /\ Readable(t) /\ Head(down[ccid[t]]).type = "NEW_URI_ENTERED"
    /\ Read(t)
    /\ \/ /\ proc[t] = "open"
          /\ shown' = [shown EXCEPT ![t] = Append(@, Head(down[ccid[t]]).uri)]
          /\ UNCHANGED <<proc, crashed>>
       \/ /\ proc[t] = "closing"
          /\ UNCHANGED <<proc, shown, crashed>>
       \/ /\ proc[t] = "closing"
          /\ proc' = [proc EXCEPT ![t] = "dead"]
          /\ crashed' = crashed \cup {t}
          /\ UNCHANGED shown

\* The renderer is told that its tab is killed.
EndRenderer(t) ==
    /\ t # 0 /\ Readable(t) /\ Head(down[ccid[t]]).type = "TAB_KILLED"
    /\ Read(t)
    /\ proc' = [proc EXCEPT ![t] = "dead"]
    /\ UNCHANGED <<shown, crashed>>

\* WebKit or GTK ends a renderer.
Crash(t) ==
    /\ t # 0 /\ proc[t] \in {"open", "closing"}
    /\ Cardinality(crashed) < MaxCrashes
    /\ proc' = [proc EXCEPT ![t] = "dead"]
    /\ crashed' = crashed \cup {t}
    /\ UNCHANGED <<tables, pipes, ccid, poll, running, user, shown, forkfails>>

-----------------------------------------------------------------------------
\* The router looks at one channel after the other, and reads at most one
\* message from each.
Polled == running /\ poll < UNRECLAIMED_TAB_COUNTER

Pending(type) ==
    Polled /\ valid[poll] /\ up[poll] # << >> /\ Head(up[poll]).type = type

Consume == poll' = poll + 1 /\ up' = [up EXCEPT ![poll] = Tail(@)]

PollNothing ==
    /\ Polled /\ (valid[poll] => up[poll] = << >>)
    /\ poll' = poll + 1
    /\ UNCHANGED <<tables, pipes, proc, ccid, running, user, shown, forkfails, crashed>>

is_tab_index_valid(t) == windows[t] # NoTab

\* Slip: the message is handled again at the next poll.
HandleUri_Again ==
    /\ Pending("NEW_URI_ENTERED")
    /\ LET msg == Head(up[poll])
       IN  IF is_tab_index_valid(msg.tab) /\ msg.tab # 0
           THEN /\ HasRoom(down[windows[msg.tab]])
                /\ down' = [down EXCEPT ![windows[msg.tab]] = Append(@, msg)]
           ELSE UNCHANGED down
    /\ poll' = poll + 1
    /\ UNCHANGED <<tables, up, proc, ccid, running, user, shown, forkfails, crashed>>

\* A URI is passed on to the renderer of its tab, if the tab is there and is
\* not the controller's.  The write waits for room in the pipe.
HandleUri ==
    /\ Pending("NEW_URI_ENTERED")
    /\ LET msg == Head(up[poll])
       IN  IF is_tab_index_valid(msg.tab) /\ msg.tab # 0
           THEN /\ HasRoom(down[windows[msg.tab]])
                /\ down' = [down EXCEPT ![windows[msg.tab]] = Append(@, msg)]
           ELSE UNCHANGED down
    /\ Consume
    /\ UNCHANGED <<tables, proc, ccid, running, user, shown, forkfails, crashed>>

\* Slip: an off-by-one in the test for channels left.
NoChannelLeft_OffByOne == next_chan > UNRECLAIMED_TAB_COUNTER

\* allocate_comm_channel and new_browser_window return -1.
NoChannelLeft == next_chan >= UNRECLAIMED_TAB_COUNTER
NoTabLeft == next_tab >= UNRECLAIMED_TAB_COUNTER

\* Slip: the sender's channel is taken, which the code also calls ccid.
ForkRenderer_SendersChannel ==
    /\ windows' = [windows EXCEPT ![next_tab] = poll]
    /\ ccid' = [ccid EXCEPT ![next_tab] = next_chan]
    /\ proc' = [proc EXCEPT ![next_tab] = "open"]

ForkRenderer ==
    /\ windows' = [windows EXCEPT ![next_tab] = next_chan]
    /\ ccid' = [ccid EXCEPT ![next_tab] = next_chan]
    /\ proc' = [proc EXCEPT ![next_tab] = "open"]

\* A channel and a tab are allocated, neither ever again, and the renderer
\* is forked; if that fails, they are not given back.
HandleCreateTab ==
    /\ Pending("CREATE_TAB")
    /\ IF NoChannelLeft
       THEN UNCHANGED <<tables, proc, ccid, forkfails>>
       ELSE /\ next_chan' = next_chan + 1
            /\ valid' = [valid EXCEPT ![next_chan] = TRUE]
            /\ IF NoTabLeft
               THEN UNCHANGED <<next_tab, windows, proc, ccid, forkfails>>
               ELSE /\ next_tab' = next_tab + 1
                    /\ \/ ForkRenderer /\ UNCHANGED forkfails
                       \/ /\ forkfails < MaxForkFailures
                          /\ forkfails' = forkfails + 1
                          /\ UNCHANGED <<windows, ccid, proc>>
    /\ Consume
    /\ UNCHANGED <<down, running, user, shown, crashed>>

\* Slip: the pipes stay open.
HandleTabKilled_KeepsChannel ==
    /\ Pending("TAB_KILLED")
    /\ LET msg == Head(up[poll])
       IN  /\ HasRoom(down[windows[msg.tab]])
           /\ down' = [down EXCEPT ![windows[msg.tab]] = Append(@, msg)]
           /\ windows' = [windows EXCEPT ![msg.tab] = NoTab]
    /\ Consume
    /\ UNCHANGED <<next_chan, next_tab, valid, proc, ccid, running, user, shown,
                   forkfails, crashed>>

\* The message goes back to the tab; the pipes of its sender are closed, and
\* the window it names is cleared.
HandleTabKilled ==
    /\ Pending("TAB_KILLED")
    /\ LET msg == Head(up[poll])
       IN  /\ HasRoom(down[windows[msg.tab]])
           /\ down' = [down EXCEPT ![windows[msg.tab]] = Append(@, msg)]
           /\ windows' = [windows EXCEPT ![msg.tab] = NoTab]
    /\ valid' = [valid EXCEPT ![poll] = FALSE]
    /\ Consume
    /\ UNCHANGED <<next_chan, next_tab, proc, ccid, running, user, shown,
                   forkfails, crashed>>

\* Slip: ECHILD is taken for no news.
router_reap_children_NoEchild ==
    /\ running /\ poll = UNRECLAIMED_TAB_COUNTER
    /\ poll' = 0
    /\ \/ \E t \in Tab : /\ proc[t] = "dead"
                        /\ proc' = [proc EXCEPT ![t] = "reaped"]
       \/ /\ \A t \in Tab : proc[t] # "dead"
          /\ UNCHANGED proc
    /\ UNCHANGED <<tables, pipes, ccid, running, user, shown, forkfails, crashed>>

\* After a round, one dead child is waited for; without any child the router
\* exits.
router_reap_children ==
    /\ running /\ poll = UNRECLAIMED_TAB_COUNTER
    /\ poll' = 0
    /\ \/ \E t \in Tab : /\ proc[t] = "dead"
                        /\ proc' = [proc EXCEPT ![t] = "reaped"]
          /\ UNCHANGED running
       \/ /\ \A t \in Tab : proc[t] # "dead"
          /\ running' = (\E t \in Tab : proc[t] \in {"open", "closing"})
          /\ UNCHANGED proc
    /\ UNCHANGED <<tables, pipes, ccid, user, shown, forkfails, crashed>>

-----------------------------------------------------------------------------
User ==
    \/ new_tab_created_cb
    \/ \E t \in Tab : uri_entered_cb(t) \/ delete_window_cb(t)

Renderer(t) == RenderUri(t) \/ EndRenderer(t)

Router ==
    \/ PollNothing \/ HandleUri \/ HandleCreateTab \/ HandleTabKilled
    \/ router_reap_children

Next == User \/ Router \/ \E t \in Tab : Renderer(t) \/ Crash(t)

Spec == Init /\ [][Next]_vars

\* The router and the renderers run in a loop; of the user nothing is known.
FairSpec == Spec /\ WF_vars(Router) /\ \A t \in Tab : WF_vars(Renderer(t))

-----------------------------------------------------------------------------
Message ==
    [type : {"NEW_URI_ENTERED"}, tab : Tab, uri : Uri]
        \cup [type : {"CREATE_TAB", "TAB_KILLED"}, tab : Tab]

\* The variables keep their types, and pipes their size; a process has a
\* channel from its fork on.
TypeOK ==
    /\ {next_chan, next_tab} \subseteq 0 .. UNRECLAIMED_TAB_COUNTER
    /\ valid \in [Tab -> BOOLEAN]
    /\ windows \in [Tab -> Tab \cup {NoTab}]
    /\ up \in [Tab -> Seq(Message)] /\ down \in [Tab -> Seq(Message)]
    /\ \A c \in Tab : Len(up[c]) <= PipeSize /\ Len(down[c]) <= PipeSize
    /\ proc \in [Tab -> {"none", "open", "closing", "dead", "reaped"}]
    /\ ccid \in [Tab -> Tab \cup {NoTab}]
    /\ \A t \in Tab : ccid[t] = NoTab <=> proc[t] = "none"
    /\ poll \in 0 .. UNRECLAIMED_TAB_COUNTER /\ running \in BOOLEAN
    /\ target \in [Uri -> Tab \cup {NoTab}] /\ shown \in [Tab -> Seq(Uri)]
    /\ entered \in 0 .. MaxUris /\ clicks \in 0 .. MaxClicks
    /\ forkfails \in 0 .. MaxForkFailures /\ crashed \subseteq Tab

\* A tab shows the URIs that were entered for it, in the order of entry, each
\* once, although tab numbers and channel numbers are handed out apart.
UrisReachTheirTabs ==
    \A t \in Tab : \A k \in 1 .. Len(shown[t]) :
        /\ target[shown[t][k]] = t
        /\ \A l \in 1 .. k - 1 : shown[t][l] < shown[t][k]

\* A message that a tab was killed comes from the tab it names: the pipes
\* that router.c:205 closes, the sender's, are those of the window that
\* line 206 clears, which nobody has cleared before.
KilledTabIsSender ==
    \A c \in Tab : valid[c] =>
        \A k \in 1 .. Len(up[c]) :
            up[c][k].type = "TAB_KILLED" => windows[up[c][k].tab] = c

\* The router keeps what a running tab needs, and gives back what an ended
\* one had, unless it crashed: its pipes are open and its window is set
\* until its TAB_KILLED is handled, and not longer.
Killed(c) == \E k \in 1 .. Len(up[c]) : up[c][k].type = "TAB_KILLED"

PipesReclaimed ==
    \A t \in Tab :
        /\ proc[t] = "open" => valid[ccid[t]] /\ windows[t] = ccid[t]
        /\ proc[t] \in {"closing", "dead", "reaped"} /\ t \notin crashed =>
               (valid[ccid[t]] <=> Killed(ccid[t]))
        /\ windows[t] # NoTab => valid[windows[t]]

\* A tab whose window is closed ends, and when no window is left the router
\* does; only a crash can keep it from that, by leaving a full pipe that
\* nobody reads.
TabsAndRouterEnd ==
    /\ \A t \in Tab : proc[t] = "closing" ~> (proc[t] = "reaped" \/ crashed # {})
    /\ (\A t \in Tab : proc[t] # "open") ~>
           (~ running \/ crashed # {} \/ \E t \in Tab : proc[t] = "open")

\* A URI under way to a tab is read there.
Waits(u) == \E t \in Tab : \E k \in 1 .. Len(down[t]) : down[t][k] = NewUri(target[u], u)

UrisRead == \A u \in Uri : Waits(u) ~> (~ Waits(u) \/ crashed # {})
=============================================================================
