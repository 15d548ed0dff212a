--------------------------- MODULE BrowserProofs ---------------------------
(***************************************************************************)
(* Proofs about Browser for any number of tabs, any size of the pipes and  *)
(* any number of URIs, clicks, crashes and failed forks.                   *)
(***************************************************************************)
EXTENDS Browser, SequenceTheorems, TLAPS

\* Tabs and channels are handed out in order and apart: every channel has
\* one tab at most, and a window that is set is set to the channel of its
\* tab.
Allocated ==
    /\ next_tab \in 1 .. next_chan
    /\ \A t \in Tab : proc[t] # "none" => t < next_tab /\ ccid[t] < next_chan
    /\ \A s, t \in Tab : ccid[s] = ccid[t] /\ ccid[t] # NoTab => s = t
    /\ ccid[0] = 0
    /\ \A t \in Tab : windows[t] # NoTab => windows[t] = ccid[t]

IsUri(msg) == msg.type = "NEW_URI_ENTERED"

\* The URI u has been entered for tab t.
EnteredFor(u, t) == u \in 1 .. entered /\ target[u] = t

\* On the way to the router: URIs and clicks come from the controller, and a
\* TAB_KILLED is the last thing its tab says, whose channel it comes through
\* and whose pipes and window the router still has.
UpMessage(c, k, msg) ==
    \/ c = 0 /\ IsUri(msg) /\ EnteredFor(msg.uri, msg.tab)
    \/ c = 0 /\ msg.type = "CREATE_TAB"
    \/ /\ msg.type = "TAB_KILLED" /\ k = Len(up[c])
       /\ ccid[msg.tab] = c /\ proc[msg.tab] # "open"
       /\ valid[c] /\ windows[msg.tab] = c

UpOK == \A c \in Tab : \A k \in 1 .. Len(up[c]) : UpMessage(c, k, up[c][k])

\* On the way to a tab: what is in its pipe is meant for it, and its
\* TAB_KILLED comes after the router has closed the channel.
DownMessage(c, msg) ==
    /\ ccid[msg.tab] = c
    /\ \/ IsUri(msg) /\ EnteredFor(msg.uri, msg.tab)
       \/ msg.type = "TAB_KILLED" /\ proc[msg.tab] # "open" /\ ~ valid[c]

DownOK == \A c \in Tab : \A k \in 1 .. Len(down[c]) : DownMessage(c, down[c][k])

ShownOK == \A t \in Tab : \A k \in 1 .. Len(shown[t]) : EnteredFor(shown[t][k], t)

\* URIs are numbered as they are entered.  They leave the controller in that
\* order, what the router has passed on is older than what it has not, and
\* what a tab shows is older than what is in its pipe.
Ascending(pipe) ==
    \A k \in 1 .. Len(pipe) : \A l \in 1 .. k - 1 :
       IsUri(pipe[k]) /\ IsUri(pipe[l]) => pipe[l].uri < pipe[k].uri

Ordered ==
    /\ Ascending(up[0])
    /\ \A c \in Tab : Ascending(down[c])
    /\ \A t \in Tab : \A k \in 1 .. Len(shown[t]) : \A l \in 1 .. k - 1 :
          shown[t][l] < shown[t][k]

PassedInOrder ==
    \A k \in 1 .. Len(up[0]) : IsUri(up[0][k]) =>
       /\ \A c \in Tab : \A l \in 1 .. Len(down[c]) :
             IsUri(down[c][l]) => down[c][l].uri < up[0][k].uri
       /\ \A t \in Tab : \A l \in 1 .. Len(shown[t]) :
             shown[t][l] < up[0][k].uri

ReadInOrder ==
    \A t \in Tab : ccid[t] # NoTab =>
       \A k \in 1 .. Len(down[ccid[t]]) : IsUri(down[ccid[t]][k]) =>
          \A l \in 1 .. Len(shown[t]) : shown[t][l] < down[ccid[t]][k].uri

\* The inductive invariant.
IInv ==
    /\ TypeOK /\ Allocated /\ UpOK /\ DownOK /\ ShownOK
    /\ Ordered /\ PassedInOrder /\ ReadInOrder /\ PipesReclaimed

-----------------------------------------------------------------------------
(***************************************************************************)
(* What is done to a pipe.                                                 *)
(***************************************************************************)
LEMMA MessageFields ==
    ASSUME NEW msg \in Message
    PROVE  /\ msg.tab \in Tab
           /\ msg.type \in {"NEW_URI_ENTERED", "CREATE_TAB", "TAB_KILLED"}
           /\ IsUri(msg) => msg.uri \in Uri
  BY DEF Message, IsUri

\* The messages that are sent are messages.
LEMMA SentMessages ==
    ASSUME NEW t \in Tab
    PROVE  /\ CreateTab \in Message /\ TabKilled(t) \in Message
           /\ \A u \in Uri : NewUri(t, u) \in Message
           /\ CreateTab.type = "CREATE_TAB"
           /\ TabKilled(t).type = "TAB_KILLED" /\ TabKilled(t).tab = t
           /\ \A u \in Uri : /\ IsUri(NewUri(t, u)) /\ NewUri(t, u).tab = t
                             /\ NewUri(t, u).uri = u
<1>1. 0 \in Tab
  BY BoundsAssumption DEF Tab
<1> QED
  BY <1>1 DEF Message, CreateTab, TabKilled, NewUri, IsUri

\* Pipe c of p has one message more in q, the last.
Gains(p, q, c, msg) ==
    /\ q \in [Tab -> Seq(Message)] /\ \A d \in Tab \ {c} : q[d] = p[d]
    /\ Len(q[c]) = Len(p[c]) + 1 /\ q[c][Len(q[c])] = msg
    /\ \A k \in 1 .. Len(p[c]) : q[c][k] = p[c][k]

\* Pipe c of p has one message less in q, the first.
Loses(p, q, c) ==
    /\ q \in [Tab -> Seq(Message)] /\ \A d \in Tab \ {c} : q[d] = p[d]
    /\ Len(q[c]) = Len(p[c]) - 1
    /\ \A k \in 1 .. Len(q[c]) : q[c][k] = p[c][k + 1]

LEMMA AppendGains ==
    ASSUME NEW p \in [Tab -> Seq(Message)], NEW c \in Tab, NEW msg \in Message
    PROVE  Gains(p, [p EXCEPT ![c] = Append(@, msg)], c, msg)
<1> DEFINE s == p[c]
<1>1. s \in Seq(Message)
  OBVIOUS
<1>2. /\ Append(s, msg) \in Seq(Message) /\ Len(Append(s, msg)) = Len(s) + 1
      /\ \A k \in 1 .. Len(s) : Append(s, msg)[k] = s[k]
      /\ Append(s, msg)[Len(s) + 1] = msg
  BY <1>1, AppendProperties
<1> HIDE DEF s
<1> QED
  BY <1>2 DEF Gains, s

LEMMA TailLoses ==
    ASSUME NEW p \in [Tab -> Seq(Message)], NEW c \in Tab, p[c] # << >>
    PROVE  /\ Loses(p, [p EXCEPT ![c] = Tail(@)], c)
           /\ Head(p[c]) = p[c][1] /\ Len(p[c]) \in Nat \ {0}
           /\ Head(p[c]) \in Message
<1> DEFINE s == p[c]
<1>1. s \in Seq(Message) /\ s # << >>
  OBVIOUS
<1>2. /\ Tail(s) \in Seq(Message) /\ Len(Tail(s)) = Len(s) - 1
      /\ \A k \in 1 .. Len(Tail(s)) : Tail(s)[k] = s[k + 1]
      /\ Head(s) \in Message
  BY <1>1, HeadTailProperties
<1>3. Head(s) = s[1] /\ Len(s) \in Nat \ {0}
  BY <1>1, EmptySeq
<1> HIDE DEF s
<1> QED
  BY <1>2, <1>3 DEF Loses, s

LEMMA PipeTypes ==
    ASSUME TypeOK
    PROVE  \A c \in Tab :
              /\ Len(up[c]) \in Nat /\ \A k \in 1 .. Len(up[c]) : up[c][k] \in Message
              /\ Len(down[c]) \in Nat
              /\ \A k \in 1 .. Len(down[c]) : down[c][k] \in Message
              /\ Len(shown[c]) \in Nat
              /\ \A k \in 1 .. Len(shown[c]) : shown[c][k] \in Uri
  BY DEF TypeOK

-----------------------------------------------------------------------------
LEMMA InitIInv == Init => IInv
<1> SUFFICES ASSUME Init
             PROVE  IInv
  OBVIOUS
<1>1. 0 \in Tab
  BY BoundsAssumption DEF Tab
<1>2. /\ \A c \in Tab : Len(up[c]) = 0 /\ Len(down[c]) = 0 /\ Len(shown[c]) = 0
      /\ up \in [Tab -> Seq(Message)] /\ down \in [Tab -> Seq(Message)]
      /\ shown \in [Tab -> Seq(Uri)]
  BY EmptySeq DEF Init
<1>3. TypeOK
  BY <1>1, <1>2, BoundsAssumption, NoTabAssumption DEF Init, TypeOK
<1>4. Allocated
  BY <1>1, NoTabAssumption DEF Init, Allocated, Tab
<1>5. UpOK /\ DownOK /\ ShownOK
  BY <1>2 DEF UpOK, DownOK, ShownOK
<1>6. Ordered /\ PassedInOrder /\ ReadInOrder
  BY <1>1, <1>2 DEF Ordered, PassedInOrder, ReadInOrder, Ascending, Allocated, Init
<1>7. PipesReclaimed
  BY <1>1, NoTabAssumption DEF Init, PipesReclaimed
<1> QED
  BY <1>3, <1>4, <1>5, <1>6, <1>7 DEF IInv

-----------------------------------------------------------------------------
(***************************************************************************)
(* Steps that leave every pipe and every table alone.                      *)
(***************************************************************************)
\* A process that is not open does not open again.
LEMMA PipesUntouched ==
    ASSUME IInv, UNCHANGED <<tables, pipes, ccid, user, shown>>,
           \A t \in Tab : proc[t] # "open" => proc'[t] # "open"
    PROVE  UpOK' /\ DownOK' /\ ShownOK' /\ Ordered' /\ PassedInOrder' /\ ReadInOrder'
<1> USE DEF tables, pipes, user
<1>1. UpOK'
  BY PipeTypes, MessageFields DEF IInv, UpOK, UpMessage, IsUri, EnteredFor
<1>2. DownOK'
  <2> SUFFICES ASSUME NEW c \in Tab, NEW k \in 1 .. Len(down[c])
               PROVE  DownMessage(c, down[c][k])'
    BY DEF DownOK
  <2>1. DownMessage(c, down[c][k]) /\ down[c][k].tab \in Tab
    BY PipeTypes, MessageFields DEF IInv, DownOK
  <2> QED
    BY <2>1 DEF DownMessage, IsUri, EnteredFor
<1>3. ShownOK'
  BY DEF IInv, ShownOK, EnteredFor
<1>4. Ordered' /\ PassedInOrder' /\ ReadInOrder'
  BY DEF IInv, Ordered, PassedInOrder, ReadInOrder, Ascending, IsUri
<1> QED
  BY <1>1, <1>2, <1>3, <1>4

LEMMA StutterIInv == ASSUME IInv, UNCHANGED vars PROVE IInv'
<1> USE DEF vars, tables, pipes, user
<1>1. TypeOK' /\ Allocated' /\ PipesReclaimed'
  BY DEF IInv, TypeOK, Allocated, PipesReclaimed, Killed
<1> QED
  BY <1>1, PipesUntouched DEF IInv

LEMMA PollNothingIInv == ASSUME IInv, PollNothing PROVE IInv'
<1> USE DEF PollNothing, tables, pipes, user
<1>1. TypeOK'
  <2>1. poll' \in 0 .. UNRECLAIMED_TAB_COUNTER
    <3>1. poll \in 0 .. UNRECLAIMED_TAB_COUNTER
      BY DEF IInv, TypeOK
    <3>2. poll < UNRECLAIMED_TAB_COUNTER /\ poll' = poll + 1
      BY DEF Polled
    <3> QED
      BY <3>1, <3>2, BoundsAssumption
  <2> QED
    BY <2>1 DEF IInv, TypeOK
<1>2. Allocated' /\ PipesReclaimed'
  BY DEF IInv, Allocated, PipesReclaimed, Killed
<1> QED
  BY <1>1, <1>2, PipesUntouched DEF IInv

LEMMA ReapIInv == ASSUME IInv, router_reap_children PROVE IInv'
<1> USE DEF router_reap_children, tables, pipes, user
<1>1. TypeOK'
  <2>1. /\ proc' \in [Tab -> {"none", "open", "closing", "dead", "reaped"}]
        /\ \A t \in Tab : proc'[t] = "none" <=> proc[t] = "none"
    BY DEF IInv, TypeOK
  <2>2. running' \in BOOLEAN
    BY DEF IInv, TypeOK
  <2>3. poll' \in 0 .. UNRECLAIMED_TAB_COUNTER
    BY BoundsAssumption
  <2> QED
    BY <2>1, <2>2, <2>3 DEF IInv, TypeOK
<1>2. \A t \in Tab : \/ proc'[t] = proc[t]
                     \/ proc[t] = "dead" /\ proc'[t] = "reaped"
  BY DEF IInv, TypeOK
<1>3. Allocated' /\ PipesReclaimed'
  BY <1>2 DEF IInv, Allocated, PipesReclaimed, Killed
<1> QED
  BY <1>1, <1>2, <1>3, PipesUntouched DEF IInv

\* A renderer that crashes leaves its pipes and its window behind.
LEMMA CrashIInv == ASSUME IInv, NEW t \in Tab, Crash(t) PROVE IInv'
<1> USE DEF Crash, tables, pipes, user
<1>1. TypeOK'
  BY DEF IInv, TypeOK
<1>2. \A s \in Tab : \/ proc'[s] = proc[s]
                     \/ s = t /\ proc[s] # "none" /\ proc'[s] = "dead"
  BY DEF IInv, TypeOK
<1>3. Allocated' /\ PipesReclaimed'
  BY <1>2 DEF IInv, Allocated, PipesReclaimed, Killed
<1> QED
  BY <1>1, <1>2, <1>3, PipesUntouched DEF IInv

-----------------------------------------------------------------------------
(***************************************************************************)
(* Steps of the user: a message goes into the pipe of an open tab.         *)
(***************************************************************************)
LEMMA SendGains ==
    ASSUME TypeOK, NEW t \in Tab, ccid[t] \in Tab, NEW msg \in Message, Send(t, msg)
    PROVE  /\ Gains(up, up', ccid[t], msg)
           /\ \A c \in Tab : Len(up'[c]) <= PipeSize
<1>1. up \in [Tab -> Seq(Message)] /\ \A c \in Tab : Len(up[c]) <= PipeSize
  BY DEF TypeOK
<1>2. Gains(up, up', ccid[t], msg)
  BY <1>1, AppendGains DEF Send
<1>3. Len(up[ccid[t]]) < PipeSize /\ Len(up[ccid[t]]) \in Nat
  BY <1>1 DEF Send, HasRoom
<1>4. Len(up'[ccid[t]]) <= PipeSize
  BY <1>2, <1>3, BoundsAssumption DEF Gains
<1>5. \A c \in Tab \ {ccid[t]} : up'[c] = up[c]
  BY <1>2 DEF Gains
<1> QED
  BY <1>1, <1>2, <1>4, <1>5

\* A message under way to the router was there before or is the new one.
LEMMA UpGained ==
    ASSUME TypeOK, NEW c \in Tab, NEW msg \in Message, Gains(up, up', c, msg)
    PROVE  \A d \in Tab : \A k \in 1 .. Len(up'[d]) :
              \/ d = c /\ k = Len(up'[c]) /\ k = Len(up[c]) + 1 /\ up'[d][k] = msg
              \/ /\ k \in 1 .. Len(up[d]) /\ up'[d][k] = up[d][k]
                 /\ d = c => k < Len(up'[c])
<1> SUFFICES ASSUME NEW d \in Tab, NEW k \in 1 .. Len(up'[d])
             PROVE  \/ /\ d = c /\ k = Len(up'[c]) /\ k = Len(up[c]) + 1
                       /\ up'[d][k] = msg
                    \/ /\ k \in 1 .. Len(up[d]) /\ up'[d][k] = up[d][k]
                       /\ d = c => k < Len(up'[c])
  OBVIOUS
<1>1. Len(up[d]) \in Nat /\ Len(up'[c]) = Len(up[c]) + 1
  BY DEF TypeOK, Gains
<1>2. CASE d # c
  <2>1. up'[d] = up[d]
    BY <1>2 DEF Gains
  <2> QED
    BY <1>2, <2>1
<1>3. CASE d = c /\ k = Len(up'[c])
  <2>1. up'[c][Len(up'[c])] = msg
    BY DEF Gains
  <2> QED
    BY <1>1, <1>3, <2>1
<1>4. CASE d = c /\ k # Len(up'[c])
  <2>1. k \in 1 .. Len(up[c]) /\ k < Len(up'[c])
    BY <1>1, <1>4
  <2>2. up'[c][k] = up[c][k]
    BY <2>1 DEF Gains
  <2> QED
    BY <1>4, <2>1, <2>2
<1> QED
  BY <1>2, <1>3, <1>4

\* An open tab has a channel and has not said that it was killed.
LEMMA OpenTab ==
    ASSUME IInv, NEW t \in Tab, proc[t] = "open"
    PROVE  /\ ccid[t] \in Tab
           /\ \A k \in 1 .. Len(up[ccid[t]]) : up[ccid[t]][k].type # "TAB_KILLED"
<1>1. ccid[t] \in Tab /\ ccid[t] # NoTab
  BY NoTabAssumption DEF IInv, TypeOK
<1>2. ASSUME NEW k \in 1 .. Len(up[ccid[t]]), up[ccid[t]][k].type = "TAB_KILLED"
      PROVE  FALSE
  <2> DEFINE msg == up[ccid[t]][k]
  <2>1. msg \in Message /\ msg.tab \in Tab
    BY <1>1, PipeTypes, MessageFields DEF IInv
  <2>2. UpMessage(ccid[t], k, msg)
    BY <1>1 DEF IInv, UpOK
  <2>3. ccid[msg.tab] = ccid[t] /\ proc[msg.tab] # "open"
    BY <1>2, <2>2 DEF UpMessage, IsUri
  <2>4. msg.tab = t
    BY <1>1, <2>1, <2>3 DEF IInv, Allocated
  <2> QED
    BY <2>3, <2>4
<1> QED
  BY <1>1, <1>2

LEMMA KilledGains ==
    ASSUME TypeOK, NEW c \in Tab, NEW msg \in Message, Gains(up, up', c, msg)
    PROVE  \A d \in Tab : Killed(d)' <=> \/ Killed(d)
                                         \/ d = c /\ msg.type = "TAB_KILLED"
<1> SUFFICES ASSUME NEW d \in Tab
             PROVE  Killed(d)' <=> Killed(d) \/ (d = c /\ msg.type = "TAB_KILLED")
  OBVIOUS
<1>1. up \in [Tab -> Seq(Message)] /\ Len(up[c]) \in Nat
  BY DEF TypeOK
<1>2. ASSUME NEW k \in 1 .. Len(up'[d]), up'[d][k].type = "TAB_KILLED"
      PROVE  Killed(d) \/ (d = c /\ msg.type = "TAB_KILLED")
  BY <1>1, <1>2, UpGained DEF Killed
<1>3. ASSUME NEW k \in 1 .. Len(up[d]), up[d][k].type = "TAB_KILLED"
      PROVE  \E l \in 1 .. Len(up'[d]) : up'[d][l].type = "TAB_KILLED"
  <2>1. CASE d = c
    <3>1. Len(up'[c]) = Len(up[c]) + 1
      BY DEF Gains
    <3>2. up'[c][k] = up[c][k]
      BY <1>3, <2>1 DEF Gains
    <3>3. k \in 1 .. Len(up'[c])
      BY <1>1, <1>3, <2>1, <3>1
    <3> QED
      BY <1>3, <2>1, <3>2, <3>3
  <2>2. CASE d # c
    <3>1. up'[d] = up[d]
      BY <2>2 DEF Gains
    <3> QED
      BY <1>3, <3>1
  <2> QED
    BY <2>1, <2>2
<1>4. ASSUME d = c, msg.type = "TAB_KILLED"
      PROVE  \E l \in 1 .. Len(up'[d]) : up'[d][l].type = "TAB_KILLED"
  <2>1. Len(up'[c]) = Len(up[c]) + 1 /\ up'[c][Len(up'[c])] = msg
    BY DEF Gains
  <2>2. Len(up'[c]) \in 1 .. Len(up'[c])
    BY <1>1, <2>1
  <2> QED
    BY <1>4, <2>1, <2>2
<1> QED
  BY <1>2, <1>3, <1>4 DEF Killed

\* What is on its way stays right while URIs are entered.
LEMMA UriEnteredIInv ==
    ASSUME IInv, NEW t \in Tab, uri_entered_cb(t)
    PROVE  IInv'
<1> DEFINE new == NewUri(t, entered + 1)
<1>1. 0 \in Tab /\ ccid[0] = 0 /\ proc[0] = "open"
  BY BoundsAssumption DEF uri_entered_cb, Tab, IInv, Allocated
<1>2. /\ entered \in Nat /\ entered + 1 \in Uri
      /\ target' = [target EXCEPT ![entered + 1] = t] /\ entered' = entered + 1
      /\ target \in [Uri -> Tab \cup {NoTab}]
  BY BoundsAssumption DEF uri_entered_cb, IInv, TypeOK, Uri
<1>3. /\ new \in Message /\ IsUri(new) /\ new.uri = entered + 1 /\ new.tab = t
      /\ new.type # "TAB_KILLED"
  BY <1>2, SentMessages DEF IsUri
<1>4. Send(0, new)
  BY DEF uri_entered_cb
<1> HIDE DEF new
<1>5. Gains(up, up', 0, new) /\ \A c \in Tab : Len(up'[c]) <= PipeSize
  BY <1>1, <1>3, <1>4, SendGains DEF IInv
<1>6. UNCHANGED <<next_chan, next_tab, valid, windows, down, proc, ccid, poll,
                  running, shown, forkfails, crashed, clicks>>
  BY <1>4 DEF uri_entered_cb, Send, tables
<1>7. ASSUME NEW u \in Uri, NEW s \in Tab, EnteredFor(u, s)
      PROVE  EnteredFor(u, s)'
  BY <1>2, <1>7 DEF EnteredFor
<1>8. TypeOK'
  <2>1. up' \in [Tab -> Seq(Message)]
    BY <1>5 DEF Gains
  <2>2. target' \in [Uri -> Tab \cup {NoTab}] /\ entered' \in 0 .. MaxUris
    BY <1>2, BoundsAssumption DEF Uri
  <2> QED
    BY <1>5, <1>6, <2>1, <2>2 DEF IInv, TypeOK
<1>9. Allocated'
  BY <1>6 DEF IInv, Allocated
<1>10. UpOK'
  <2> SUFFICES ASSUME NEW c \in Tab, NEW k \in 1 .. Len(up'[c])
               PROVE  UpMessage(c, k, up[c][k])'
    BY DEF UpOK
  <2>1. CASE c = 0 /\ k = Len(up'[0]) /\ up'[c][k] = new
    <3>1. entered + 1 \in 1 .. entered' /\ target'[entered + 1] = t
      BY <1>2
    <3> QED
      BY <1>3, <2>1, <3>1 DEF UpMessage, EnteredFor, IsUri
  <2>2. CASE k \in 1 .. Len(up[c]) /\ up'[c][k] = up[c][k]
    <3>2. UpMessage(c, k, up[c][k]) /\ up[c][k] \in Message
      BY <2>2, PipeTypes DEF IInv, UpOK
    <3>3. up[c][k].tab \in Tab /\ (IsUri(up[c][k]) => up[c][k].uri \in Uri)
      BY <3>2, MessageFields
    <3>4. CASE c = 0
      <4>1. up[c][k].type # "TAB_KILLED"
        BY <1>1, <2>2, <3>4, OpenTab
      <4> QED
        BY <1>7, <2>2, <3>2, <3>3, <4>1 DEF UpMessage, IsUri
    <3>5. CASE c # 0
      BY <1>5, <1>6, <2>2, <3>2, <3>5 DEF UpMessage, Gains, IsUri
    <3> QED
      BY <3>4, <3>5
  <2> QED
    BY <1>1, <1>3, <1>5, <2>1, <2>2, UpGained DEF IInv
<1>11. DownOK'
  <2> SUFFICES ASSUME NEW c \in Tab, NEW k \in 1 .. Len(down[c])
               PROVE  DownMessage(c, down[c][k])'
    BY <1>6 DEF DownOK
  <2>1. /\ DownMessage(c, down[c][k]) /\ down[c][k].tab \in Tab
        /\ (IsUri(down[c][k]) => down[c][k].uri \in Uri)
    BY PipeTypes, MessageFields DEF IInv, DownOK
  <2> QED
    BY <1>6, <1>7, <2>1 DEF DownMessage, IsUri
<1>12. ShownOK'
  BY <1>6, <1>7, PipeTypes DEF IInv, ShownOK
<1>13. Ordered'
  <2>1. \A k \in 1 .. Len(up[0]) : IsUri(up[0][k]) => up[0][k].uri < entered + 1
    BY <1>1, <1>2 DEF IInv, UpOK, UpMessage, EnteredFor, IsUri
  <2>2. Ascending(up'[0])
    <3> SUFFICES ASSUME NEW k \in 1 .. Len(up'[0]), NEW l \in 1 .. k - 1,
                        IsUri(up'[0][k]), IsUri(up'[0][l])
                 PROVE  up'[0][l].uri < up'[0][k].uri
      BY DEF Ascending
    <3>1. l \in 1 .. Len(up[0]) /\ up'[0][l] = up[0][l]
      BY <1>1, <1>5, PipeTypes DEF Gains, IInv
    <3>2. CASE k = Len(up'[0]) /\ up'[0][k] = new
      BY <1>3, <2>1, <3>1, <3>2
    <3>3. CASE k \in 1 .. Len(up[0]) /\ up'[0][k] = up[0][k]
      BY <3>1, <3>3 DEF IInv, Ordered, Ascending
    <3> QED
      BY <1>1, <1>3, <1>5, <3>2, <3>3, UpGained DEF IInv
  <2> QED
    BY <1>6, <2>2 DEF IInv, Ordered
<1>14. PassedInOrder'
  <2> SUFFICES ASSUME NEW k \in 1 .. Len(up'[0]), IsUri(up'[0][k])
               PROVE  /\ \A c \in Tab : \A l \in 1 .. Len(down[c]) :
                            IsUri(down[c][l]) => down[c][l].uri < up'[0][k].uri
                      /\ \A s \in Tab : \A l \in 1 .. Len(shown[s]) :
                            shown[s][l] < up'[0][k].uri
    BY <1>6 DEF PassedInOrder, IsUri
  <2>1. CASE k = Len(up'[0])
    <3>1. up'[0][k].uri = entered + 1
      BY <1>3, <1>5, <2>1 DEF Gains
    <3> QED
      BY <1>2, <3>1 DEF IInv, DownOK, ShownOK, DownMessage, EnteredFor, IsUri
  <2>2. CASE k # Len(up'[0])
    <3>1. k \in 1 .. Len(up[0]) /\ up'[0][k] = up[0][k]
      BY <1>1, <1>5, <2>2, PipeTypes DEF Gains, IInv
    <3> QED
      BY <3>1 DEF IInv, PassedInOrder
  <2> QED
    BY <2>1, <2>2
<1>15. ReadInOrder'
  BY <1>6 DEF IInv, ReadInOrder
<1>16. PipesReclaimed'
  <2>1. \A c \in Tab : Killed(c)' <=> Killed(c)
    BY <1>1, <1>3, <1>5, KilledGains DEF IInv
  <2> QED
    BY <1>6, <2>1, NoTabAssumption DEF IInv, PipesReclaimed, TypeOK
<1> QED
  BY <1>8, <1>9, <1>10, <1>11, <1>12, <1>13, <1>14, <1>15, <1>16 DEF IInv

\* What an open tab says that is no URI leaves what is under way right.
LEMMA SendKeeps ==
    ASSUME IInv, NEW t \in Tab, proc[t] = "open",
           NEW msg \in Message, ~ IsUri(msg), Send(t, msg),
           UNCHANGED <<target, entered>>,
           \A s \in Tab : proc[s] # "open" => proc'[s] # "open"
    PROVE  /\ Gains(up, up', ccid[t], msg) /\ ccid[t] \in Tab
           /\ \A c \in Tab : Len(up'[c]) <= PipeSize
           /\ \A c \in Tab : \A k \in 1 .. Len(up'[c]) :
                 \/ UpMessage(c, k, up[c][k])'
                 \/ c = ccid[t] /\ k = Len(up'[c]) /\ up'[c][k] = msg
           /\ DownOK' /\ ShownOK' /\ Ordered' /\ PassedInOrder' /\ ReadInOrder'
<1>1. UNCHANGED <<valid, windows, down, ccid, shown, target, entered>>
  BY DEF Send, tables
<1>2. /\ ccid[t] \in Tab
      /\ \A k \in 1 .. Len(up[ccid[t]]) : up[ccid[t]][k].type # "TAB_KILLED"
  BY OpenTab
<1>3. Gains(up, up', ccid[t], msg) /\ \A c \in Tab : Len(up'[c]) <= PipeSize
  BY <1>2, SendGains DEF IInv
<1>4. \A c \in Tab : \A k \in 1 .. Len(up'[c]) :
         \/ c = ccid[t] /\ k = Len(up'[c]) /\ up'[c][k] = msg
         \/ k \in 1 .. Len(up[c]) /\ up'[c][k] = up[c][k]
  BY <1>2, <1>3, UpGained DEF IInv
<1>5. ASSUME NEW c \in Tab, NEW k \in 1 .. Len(up'[c])
      PROVE  \/ UpMessage(c, k, up[c][k])'
             \/ c = ccid[t] /\ k = Len(up'[c]) /\ up'[c][k] = msg
  <2> SUFFICES ASSUME k \in 1 .. Len(up[c]), up'[c][k] = up[c][k]
               PROVE  UpMessage(c, k, up[c][k])'
    BY <1>4
  <2>1. UpMessage(c, k, up[c][k]) /\ up[c][k].tab \in Tab
    BY PipeTypes, MessageFields DEF IInv, UpOK
  <2>2. CASE c = ccid[t]
    <3>1. up[c][k].type # "TAB_KILLED"
      BY <1>2, <2>2
    <3> QED
      BY <1>1, <2>1, <3>1 DEF UpMessage, IsUri, EnteredFor
  <2>3. CASE c # ccid[t]
    <3>1. up'[c] = up[c]
      BY <1>3, <2>3 DEF Gains
    <3> QED
      BY <1>1, <2>1, <3>1 DEF UpMessage, IsUri, EnteredFor
  <2> QED
    BY <2>2, <2>3
<1>6. DownOK'
  <2> SUFFICES ASSUME NEW c \in Tab, NEW k \in 1 .. Len(down[c])
               PROVE  DownMessage(c, down[c][k])'
    BY <1>1 DEF DownOK
  <2>1. DownMessage(c, down[c][k]) /\ down[c][k].tab \in Tab
    BY PipeTypes, MessageFields DEF IInv, DownOK
  <2> QED
    BY <1>1, <2>1 DEF DownMessage, IsUri, EnteredFor
<1>7. ShownOK'
  BY <1>1 DEF IInv, ShownOK, EnteredFor
<1>8. \A k \in 1 .. Len(up'[0]) : IsUri(up'[0][k]) =>
         k \in 1 .. Len(up[0]) /\ up'[0][k] = up[0][k]
  <2>1. 0 \in Tab
    BY BoundsAssumption DEF Tab
  <2> QED
    BY <1>4, <2>1
<1>9. Ordered'
  <2>1. Ascending(up'[0])
    <3> SUFFICES ASSUME NEW k \in 1 .. Len(up'[0]), NEW l \in 1 .. k - 1,
                        IsUri(up'[0][k]), IsUri(up'[0][l])
                 PROVE  up'[0][l].uri < up'[0][k].uri
      BY DEF Ascending
    <3>1. 0 \in Tab
      BY BoundsAssumption DEF Tab
    <3>2. k \in 1 .. Len(up[0]) /\ up'[0][k] = up[0][k]
      BY <1>8
    <3>3. l \in 1 .. Len(up'[0])
      BY <3>1, <3>2, PipeTypes DEF IInv
    <3>4. l \in 1 .. Len(up[0]) /\ up'[0][l] = up[0][l]
      BY <1>8, <3>3
    <3> QED
      BY <3>2, <3>4 DEF IInv, Ordered, Ascending
  <2> QED
    BY <1>1, <2>1 DEF IInv, Ordered
<1>10. PassedInOrder'
  BY <1>1, <1>8 DEF IInv, PassedInOrder, IsUri
<1>11. ReadInOrder'
  BY <1>1 DEF IInv, ReadInOrder
<1> QED
  BY <1>2, <1>3, <1>5, <1>6, <1>7, <1>9, <1>10, <1>11

LEMMA NewTabIInv == ASSUME IInv, new_tab_created_cb PROVE IInv'
<1>1. 0 \in Tab /\ ccid[0] = 0 /\ proc[0] = "open"
  BY BoundsAssumption DEF new_tab_created_cb, Tab, IInv, Allocated
<1>2. /\ CreateTab \in Message /\ CreateTab.type = "CREATE_TAB"
      /\ ~ IsUri(CreateTab)
  BY <1>1, SentMessages DEF IsUri
<1>3. Send(0, CreateTab) /\ UNCHANGED <<proc, target, entered>>
  BY DEF new_tab_created_cb
<1>4. /\ Gains(up, up', 0, CreateTab)
      /\ \A c \in Tab : Len(up'[c]) <= PipeSize
      /\ \A c \in Tab : \A k \in 1 .. Len(up'[c]) :
            \/ UpMessage(c, k, up[c][k])'
            \/ c = 0 /\ up'[c][k] = CreateTab
      /\ DownOK' /\ ShownOK' /\ Ordered' /\ PassedInOrder' /\ ReadInOrder'
  BY <1>1, <1>2, <1>3, SendKeeps
<1>5. UNCHANGED <<next_chan, next_tab, valid, windows, down, proc, ccid, poll,
                  running, target, shown, entered, forkfails, crashed>>
  BY <1>3 DEF Send, tables
<1>6. TypeOK'
  <2>1. up' \in [Tab -> Seq(Message)]
    BY <1>4 DEF Gains
  <2>2. clicks' \in 0 .. MaxClicks
    BY BoundsAssumption DEF new_tab_created_cb, IInv, TypeOK
  <2> QED
    BY <1>4, <1>5, <2>1, <2>2 DEF IInv, TypeOK
<1>7. Allocated'
  BY <1>5 DEF IInv, Allocated
<1>8. UpOK'
  BY <1>2, <1>4 DEF UpOK, UpMessage
<1>9. PipesReclaimed'
  <2>1. \A c \in Tab : Killed(c)' <=> Killed(c)
    BY <1>1, <1>2, <1>4, KilledGains DEF IInv
  <2> QED
    BY <1>5, <2>1, NoTabAssumption DEF IInv, PipesReclaimed, TypeOK
<1> QED
  BY <1>4, <1>6, <1>7, <1>8, <1>9 DEF IInv

\* The tab that says it was killed is no longer open.
LEMMA DeleteWindowIInv ==
    ASSUME IInv, NEW t \in Tab, delete_window_cb(t)
    PROVE  IInv'
<1> DEFINE msg == TabKilled(t)
<1>1. /\ msg \in Message /\ msg.type = "TAB_KILLED" /\ msg.tab = t
      /\ ~ IsUri(msg)
  BY SentMessages DEF IsUri
<1>2. /\ Send(t, msg) /\ proc[t] = "open"
      /\ UNCHANGED <<target, entered, clicks>>
      /\ proc' = [proc EXCEPT ![t] = IF t = 0 THEN "dead" ELSE "closing"]
  BY DEF delete_window_cb, user
<1> HIDE DEF msg
<1>3. /\ proc'[t] \in {"dead", "closing"}
      /\ \A s \in Tab \ {t} : proc'[s] = proc[s]
  BY <1>2 DEF IInv, TypeOK
<1>4. /\ Gains(up, up', ccid[t], msg) /\ ccid[t] \in Tab
      /\ \A c \in Tab : Len(up'[c]) <= PipeSize
      /\ \A c \in Tab : \A k \in 1 .. Len(up'[c]) :
            \/ UpMessage(c, k, up[c][k])'
            \/ c = ccid[t] /\ k = Len(up'[c]) /\ up'[c][k] = msg
      /\ DownOK' /\ ShownOK' /\ Ordered' /\ PassedInOrder' /\ ReadInOrder'
  BY <1>1, <1>2, <1>3, SendKeeps
<1>5. UNCHANGED <<next_chan, next_tab, valid, windows, down, ccid, poll,
                  running, target, shown, entered, clicks, forkfails, crashed>>
  BY <1>2 DEF Send, tables
<1>6. valid[ccid[t]] /\ windows[t] = ccid[t]
  BY <1>2 DEF IInv, PipesReclaimed
<1>7. TypeOK'
  <2>1. up' \in [Tab -> Seq(Message)]
    BY <1>4 DEF Gains
  <2>2. /\ proc' \in [Tab -> {"none", "open", "closing", "dead", "reaped"}]
        /\ \A s \in Tab : proc'[s] = "none" <=> proc[s] = "none"
    BY <1>2, <1>3 DEF IInv, TypeOK
  <2> QED
    BY <1>4, <1>5, <2>1, <2>2 DEF IInv, TypeOK
<1>8. Allocated'
  BY <1>2, <1>3, <1>5 DEF IInv, Allocated
<1>9. UpOK'
  BY <1>1, <1>3, <1>4, <1>5, <1>6 DEF UpOK, UpMessage
<1>10. PipesReclaimed'
  <2>1. \A c \in Tab : Killed(c)' <=> Killed(c) \/ c = ccid[t]
    BY <1>1, <1>4, KilledGains DEF IInv
  <2>2. \A s \in Tab : ccid[s] = ccid[t] => s = t
    BY <1>4, NoTabAssumption DEF IInv, Allocated
  <2>3. \A s \in Tab \ {t} : proc[s] # "none" => ccid[s] \in Tab
    BY NoTabAssumption DEF IInv, TypeOK
  <2>4. \A s \in Tab : windows'[s] # NoTab => valid'[windows'[s]]
    BY <1>5 DEF IInv, PipesReclaimed
  <2>5. ASSUME NEW s \in Tab \ {t}
        PROVE  /\ proc'[s] = "open" => valid'[ccid'[s]] /\ windows'[s] = ccid'[s]
               /\ proc'[s] \in {"closing", "dead", "reaped"} /\ s \notin crashed' =>
                     (valid'[ccid'[s]] <=> Killed(ccid[s])')
    <3>1. CASE proc[s] = "none"
      BY <1>3, <3>1
    <3>2. CASE proc[s] # "none"
      <4>1. ccid[s] \in Tab /\ ccid[s] # ccid[t]
        BY <2>2, <2>3, <3>2
      <4>2. Killed(ccid[s])' <=> Killed(ccid[s])
        BY <1>5, <2>1, <4>1
      <4> QED
        BY <1>3, <1>5, <4>2 DEF IInv, PipesReclaimed
    <3> QED
      BY <3>1, <3>2
  <2>6. proc'[t] # "open" /\ valid'[ccid'[t]] /\ Killed(ccid[t])'
    BY <1>3, <1>4, <1>5, <1>6, <2>1
  <2> QED
    BY <2>4, <2>5, <2>6 DEF PipesReclaimed
<1> QED
  BY <1>4, <1>7, <1>8, <1>9, <1>10 DEF IInv

-----------------------------------------------------------------------------
(***************************************************************************)
(* Steps of a renderer: the first message of its pipe is taken.            *)
(***************************************************************************)
\* A renderer that reads has a channel, and takes the first message, which
\* is for its tab.
LEMMA ReadTakesFirst ==
    ASSUME IInv, NEW t \in Tab, Readable(t), Read(t)
    PROVE  /\ ccid[t] \in Tab /\ proc[t] \in {"open", "closing"}
           /\ Loses(down, down', ccid[t]) /\ Len(down[ccid[t]]) \in Nat \ {0}
           /\ \A c \in Tab : Len(down'[c]) <= PipeSize
           /\ Head(down[ccid[t]]) = down[ccid[t]][1]
           /\ down[ccid[t]][1] \in Message /\ down[ccid[t]][1].tab = t
           /\ DownMessage(ccid[t], down[ccid[t]][1])
<1>1. ccid[t] \in Tab /\ ccid[t] # NoTab
  BY NoTabAssumption DEF IInv, TypeOK, Readable
<1>2. /\ down \in [Tab -> Seq(Message)] /\ down[ccid[t]] # << >>
      /\ \A c \in Tab : Len(down[c]) <= PipeSize
  BY DEF IInv, TypeOK, Readable
<1>3. /\ Loses(down, down', ccid[t])
      /\ Head(down[ccid[t]]) = down[ccid[t]][1]
      /\ Len(down[ccid[t]]) \in Nat \ {0} /\ Head(down[ccid[t]]) \in Message
  BY <1>1, <1>2, TailLoses DEF Read
<1>4. \A c \in Tab : Len(down'[c]) <= PipeSize
  <2>1. Len(down'[ccid[t]]) <= PipeSize
    BY <1>1, <1>2, <1>3, BoundsAssumption DEF Loses
  <2>2. \A c \in Tab \ {ccid[t]} : down'[c] = down[c]
    BY <1>3 DEF Loses
  <2> QED
    BY <1>2, <2>1, <2>2
<1>5. DownMessage(ccid[t], down[ccid[t]][1])
  BY <1>1, <1>3 DEF IInv, DownOK
<1>6. down[ccid[t]][1].tab = t
  <2>1. /\ down[ccid[t]][1].tab \in Tab
        /\ ccid[down[ccid[t]][1].tab] = ccid[t]
    BY <1>3, <1>5, MessageFields DEF DownMessage
  <2> QED
    BY <1>1, <2>1 DEF IInv, Allocated
<1> QED
  BY <1>1, <1>3, <1>4, <1>5, <1>6 DEF Readable

\* Where a message that is left was before.
LEMMA DownLost ==
    ASSUME TypeOK, NEW c \in Tab, Loses(down, down', c)
    PROVE  \A d \in Tab : \A k \in 1 .. Len(down'[d]) :
              \/ d # c /\ k \in 1 .. Len(down[d]) /\ down'[d][k] = down[d][k]
              \/ /\ d = c /\ k + 1 \in 1 .. Len(down[d])
                 /\ down'[d][k] = down[d][k + 1]
<1> SUFFICES ASSUME NEW d \in Tab, NEW k \in 1 .. Len(down'[d])
             PROVE  \/ /\ d # c /\ k \in 1 .. Len(down[d])
                       /\ down'[d][k] = down[d][k]
                    \/ /\ d = c /\ k + 1 \in 1 .. Len(down[d])
                       /\ down'[d][k] = down[d][k + 1]
  OBVIOUS
<1>1. Len(down[d]) \in Nat
  BY DEF TypeOK
<1> QED
  BY <1>1 DEF Loses

\* Reading leaves what is under way right and in order.
LEMMA ReadKeeps ==
    ASSUME IInv, NEW t \in Tab, Readable(t), Read(t),
           \A s \in Tab : proc[s] # "open" => proc'[s] # "open"
    PROVE  /\ UpOK' /\ DownOK' /\ Ascending(up'[0])
           /\ \A c \in Tab : Ascending(down'[c])
<1>1. UNCHANGED <<valid, windows, up, ccid, target, entered>>
  BY DEF Read, tables, user
<1>2. /\ ccid[t] \in Tab /\ Loses(down, down', ccid[t])
      /\ Len(down[ccid[t]]) \in Nat \ {0}
  BY ReadTakesFirst
<1>3. UpOK'
  <2> SUFFICES ASSUME NEW c \in Tab, NEW k \in 1 .. Len(up[c])
               PROVE  UpMessage(c, k, up[c][k])'
    BY <1>1 DEF UpOK
  <2>1. UpMessage(c, k, up[c][k]) /\ up[c][k].tab \in Tab
    BY PipeTypes, MessageFields DEF IInv, UpOK
  <2> QED
    BY <1>1, <2>1 DEF UpMessage, IsUri, EnteredFor
<1>4. \A d \in Tab : \A k \in 1 .. Len(down'[d]) :
         \/ d # ccid[t] /\ k \in 1 .. Len(down[d]) /\ down'[d][k] = down[d][k]
         \/ /\ d = ccid[t] /\ k + 1 \in 1 .. Len(down[d])
            /\ down'[d][k] = down[d][k + 1]
  BY <1>2, DownLost DEF IInv
<1>5. DownOK'
  <2> SUFFICES ASSUME NEW c \in Tab, NEW k \in 1 .. Len(down'[c])
               PROVE  DownMessage(c, down[c][k])'
    BY DEF DownOK
  <2>1. PICK l \in 1 .. Len(down[c]) : down'[c][k] = down[c][l]
    BY <1>4
  <2>2. DownMessage(c, down[c][l]) /\ down[c][l].tab \in Tab
    BY <2>1, PipeTypes, MessageFields DEF IInv, DownOK
  <2> QED
    BY <1>1, <2>1, <2>2 DEF DownMessage, IsUri, EnteredFor
<1>6. ASSUME NEW c \in Tab
      PROVE  Ascending(down'[c])
  <2> SUFFICES ASSUME NEW k \in 1 .. Len(down'[c]), NEW l \in 1 .. k - 1,
                      IsUri(down'[c][k]), IsUri(down'[c][l])
               PROVE  down'[c][l].uri < down'[c][k].uri
    BY DEF Ascending
  <2>1. Ascending(down[c]) /\ Len(down[c]) \in Nat
    BY PipeTypes DEF IInv, Ordered
  <2>2. CASE c # ccid[t]
    <3>1. down'[c] = down[c]
      BY <1>2, <2>2 DEF Loses
    <3> QED
      BY <2>1, <3>1 DEF Ascending
  <2>3. CASE c = ccid[t]
    <3>1. /\ k + 1 \in 1 .. Len(down[c]) /\ l + 1 \in 1 .. (k + 1) - 1
          /\ down'[c][k] = down[c][k + 1] /\ down'[c][l] = down[c][l + 1]
      BY <1>2, <2>1, <2>3 DEF Loses
    <3> QED
      BY <2>1, <3>1 DEF Ascending
  <2> QED
    BY <2>2, <2>3
<1> QED
  BY <1>1, <1>3, <1>5, <1>6 DEF IInv, Ordered

\* A renderer ends after its window was closed and its channel given back.
LEMMA EndRendererIInv ==
    ASSUME IInv, NEW t \in Tab, EndRenderer(t)
    PROVE  IInv'
<1>1. /\ t # 0 /\ Readable(t) /\ Read(t)
      /\ Head(down[ccid[t]]).type = "TAB_KILLED"
      /\ proc' = [proc EXCEPT ![t] = "dead"] /\ UNCHANGED <<shown, crashed>>
  BY DEF EndRenderer
<1>2. /\ ccid[t] \in Tab /\ Loses(down, down', ccid[t])
      /\ \A c \in Tab : Len(down'[c]) <= PipeSize
      /\ proc[t] = "closing"
  BY <1>1, ReadTakesFirst DEF DownMessage, IsUri
<1>3. proc'[t] = "dead" /\ \A s \in Tab \ {t} : proc'[s] = proc[s]
  BY <1>1 DEF IInv, TypeOK
<1>4. UNCHANGED <<next_chan, next_tab, valid, windows, up, ccid, poll, running,
                  target, shown, entered, clicks, forkfails, crashed>>
  BY <1>1 DEF Read, tables, user
<1>5. /\ UpOK' /\ DownOK' /\ Ascending(up'[0])
      /\ \A c \in Tab : Ascending(down'[c])
  BY <1>1, <1>3, ReadKeeps
<1>6. \A c \in Tab : \A k \in 1 .. Len(down'[c]) :
         \E l \in 1 .. Len(down[c]) : down'[c][k] = down[c][l]
  BY <1>2, DownLost DEF IInv
<1>7. TypeOK'
  <2>1. down' \in [Tab -> Seq(Message)]
    BY <1>2 DEF Loses
  <2>2. /\ proc' \in [Tab -> {"none", "open", "closing", "dead", "reaped"}]
        /\ \A s \in Tab : proc'[s] = "none" <=> proc[s] = "none"
    BY <1>1, <1>2, <1>3 DEF IInv, TypeOK
  <2> QED
    BY <1>2, <1>4, <2>1, <2>2 DEF IInv, TypeOK
<1>8. Allocated'
  BY <1>2, <1>3, <1>4 DEF IInv, Allocated
<1>9. ShownOK' /\ Ordered'
  BY <1>4, <1>5 DEF IInv, ShownOK, EnteredFor, Ordered
<1>10. PassedInOrder'
  BY <1>4, <1>6 DEF IInv, PassedInOrder, IsUri
<1>11. ReadInOrder'
  <2> SUFFICES ASSUME NEW s \in Tab, ccid[s] # NoTab,
                      NEW k \in 1 .. Len(down'[ccid[s]]), IsUri(down'[ccid[s]][k]),
                      NEW l \in 1 .. Len(shown[s])
               PROVE  shown[s][l] < down'[ccid[s]][k].uri
    BY <1>4 DEF ReadInOrder, IsUri
  <2>1. ccid[s] \in Tab
    BY DEF IInv, TypeOK
  <2>2. PICK m \in 1 .. Len(down[ccid[s]]) : down'[ccid[s]][k] = down[ccid[s]][m]
    BY <1>6, <2>1
  <2> QED
    BY <2>2 DEF IInv, ReadInOrder
<1>12. PipesReclaimed'
  BY <1>2, <1>3, <1>4 DEF IInv, PipesReclaimed, Killed
<1> QED
  BY <1>5, <1>7, <1>8, <1>9, <1>10, <1>11, <1>12 DEF IInv

\* A renderer that reads a URI is asked to show what was entered for its tab
\* and comes after all it shows.  If its window is closed it may end.
LEMMA RenderUriIInv ==
    ASSUME IInv, NEW t \in Tab, RenderUri(t)
    PROVE  IInv'
<1> DEFINE msg == down[ccid[t]][1]
           u == msg.uri
<1>1. t # 0 /\ Readable(t) /\ Read(t) /\ IsUri(Head(down[ccid[t]]))
  BY DEF RenderUri, IsUri
<1>2. /\ ccid[t] \in Tab /\ ccid[t] # NoTab /\ Loses(down, down', ccid[t])
      /\ Len(down[ccid[t]]) \in Nat \ {0} /\ proc[t] \in {"open", "closing"}
      /\ \A c \in Tab : Len(down'[c]) <= PipeSize
      /\ Head(down[ccid[t]]) = msg /\ msg \in Message /\ msg.tab = t
      /\ DownMessage(ccid[t], msg)
  BY <1>1, ReadTakesFirst, NoTabAssumption
<1>3. IsUri(msg) /\ u \in Uri /\ EnteredFor(u, t)
  BY <1>1, <1>2, MessageFields DEF DownMessage, IsUri
<1>4. UNCHANGED <<next_chan, next_tab, valid, windows, up, ccid, poll, running,
                  target, entered, clicks, forkfails>>
  BY <1>1 DEF Read, tables, user
<1>5. \/ /\ proc[t] = "open" /\ shown' = [shown EXCEPT ![t] = Append(@, u)]
         /\ UNCHANGED <<proc, crashed>>
      \/ UNCHANGED <<proc, shown, crashed>>
      \/ /\ proc[t] = "closing" /\ proc' = [proc EXCEPT ![t] = "dead"]
         /\ crashed' = crashed \cup {t} /\ UNCHANGED shown
  BY <1>2 DEF RenderUri
<1> HIDE DEF msg, u
<1>6. /\ \A s \in Tab : \/ proc'[s] = proc[s]
                        \/ /\ s = t /\ proc[s] = "closing" /\ proc'[s] = "dead"
                           /\ s \in crashed'
      /\ proc' \in [Tab -> {"none", "open", "closing", "dead", "reaped"}]
      /\ crashed \subseteq crashed' /\ crashed' \subseteq Tab
  BY <1>5 DEF IInv, TypeOK
<1>7. /\ UpOK' /\ DownOK' /\ Ascending(up'[0])
      /\ \A c \in Tab : Ascending(down'[c])
  BY <1>1, <1>6, ReadKeeps
<1>8. /\ shown' \in [Tab -> Seq(Uri)]
      /\ \A s \in Tab \ {t} : shown'[s] = shown[s]
      /\ \A k \in 1 .. Len(shown'[t]) :
            \/ k \in 1 .. Len(shown[t]) /\ shown'[t][k] = shown[t][k]
            \/ k = Len(shown[t]) + 1 /\ shown'[t][k] = u
  <2>1. shown \in [Tab -> Seq(Uri)] /\ shown[t] \in Seq(Uri)
    BY DEF IInv, TypeOK
  <2>2. /\ Append(shown[t], u) \in Seq(Uri)
        /\ Len(Append(shown[t], u)) = Len(shown[t]) + 1
        /\ \A k \in 1 .. Len(shown[t]) : Append(shown[t], u)[k] = shown[t][k]
        /\ Append(shown[t], u)[Len(shown[t]) + 1] = u
    BY <1>3, <2>1, AppendProperties
  <2>3. CASE shown' = shown
    BY <2>1, <2>3
  <2>4. CASE shown' = [shown EXCEPT ![t] = Append(@, u)]
    <3>1. shown'[t] = Append(shown[t], u) /\ \A s \in Tab \ {t} : shown'[s] = shown[s]
      BY <2>1, <2>4
    <3>2. shown' \in [Tab -> Seq(Uri)]
      BY <2>1, <2>2, <2>4
    <3>3. Len(shown[t]) \in Nat
      BY <2>1
    <3> QED
      BY <2>2, <3>1, <3>2, <3>3
  <2> QED
    BY <1>5, <2>3, <2>4
<1>9. \A c \in Tab : \A k \in 1 .. Len(down'[c]) :
         \/ c # ccid[t] /\ k \in 1 .. Len(down[c]) /\ down'[c][k] = down[c][k]
         \/ /\ c = ccid[t] /\ k + 1 \in 1 .. Len(down[c])
            /\ down'[c][k] = down[c][k + 1]
  BY <1>2, DownLost DEF IInv
<1>10. \A l \in 1 .. Len(shown[t]) : shown[t][l] < u
  <2>1. 1 \in 1 .. Len(down[ccid[t]])
    BY <1>2
  <2> QED
    BY <1>2, <1>3, <2>1 DEF IInv, ReadInOrder, msg, u
<1>11. TypeOK'
  <2>1. down' \in [Tab -> Seq(Message)]
    BY <1>2 DEF Loses
  <2>2. \A s \in Tab : proc'[s] = "none" <=> proc[s] = "none"
    BY <1>6
  <2> QED
    BY <1>2, <1>4, <1>6, <1>8, <2>1, <2>2 DEF IInv, TypeOK
<1>12. Allocated'
  BY <1>4, <1>6 DEF IInv, Allocated
<1>13. ShownOK'
  <2> SUFFICES ASSUME NEW s \in Tab, NEW k \in 1 .. Len(shown'[s])
               PROVE  EnteredFor(shown'[s][k], s)
    BY <1>4 DEF ShownOK, EnteredFor
  <2> QED
    BY <1>3, <1>8 DEF IInv, ShownOK
<1>14. Ordered'
  <2> SUFFICES ASSUME NEW s \in Tab, NEW k \in 1 .. Len(shown'[s]),
                      NEW l \in 1 .. k - 1
               PROVE  shown'[s][l] < shown'[s][k]
    BY <1>7 DEF Ordered
  <2>1. CASE s # t
    BY <1>8, <2>1 DEF IInv, Ordered
  <2>2. CASE s = t
    <3>1. Len(shown[t]) \in Nat /\ Len(shown'[t]) \in Nat
      BY <1>8 DEF IInv, TypeOK
    <3>2. l \in 1 .. Len(shown'[t])
      BY <2>2, <3>1
    <3>3. l \in 1 .. Len(shown[t]) /\ shown'[t][l] = shown[t][l]
      BY <1>8, <2>2, <3>1, <3>2
    <3>4. CASE k \in 1 .. Len(shown[t]) /\ shown'[t][k] = shown[t][k]
      BY <2>2, <3>3, <3>4 DEF IInv, Ordered
    <3>5. CASE shown'[t][k] = u
      BY <1>10, <2>2, <3>3, <3>5
    <3> QED
      BY <1>8, <2>2, <3>4, <3>5
  <2> QED
    BY <2>1, <2>2
<1>15. PassedInOrder'
  <2> SUFFICES ASSUME NEW k \in 1 .. Len(up[0]), IsUri(up[0][k])
               PROVE  /\ \A c \in Tab : \A l \in 1 .. Len(down'[c]) :
                            IsUri(down'[c][l]) => down'[c][l].uri < up[0][k].uri
                      /\ \A s \in Tab : \A l \in 1 .. Len(shown'[s]) :
                            shown'[s][l] < up[0][k].uri
    BY <1>4 DEF PassedInOrder, IsUri
  <2>1. /\ \A c \in Tab : \A l \in 1 .. Len(down[c]) :
              IsUri(down[c][l]) => down[c][l].uri < up[0][k].uri
        /\ \A s \in Tab : \A l \in 1 .. Len(shown[s]) :
              shown[s][l] < up[0][k].uri
    BY DEF IInv, PassedInOrder
  <2>2. \A c \in Tab : \A l \in 1 .. Len(down'[c]) :
           IsUri(down'[c][l]) => down'[c][l].uri < up[0][k].uri
    BY <1>9, <2>1
  <2>3. u < up[0][k].uri
    <3>1. 1 \in 1 .. Len(down[ccid[t]])
      BY <1>2
    <3> QED
      BY <1>2, <1>3, <2>1, <3>1 DEF msg, u
  <2> QED
    BY <1>8, <2>1, <2>2, <2>3
<1>16. ReadInOrder'
  <2> SUFFICES ASSUME NEW s \in Tab, ccid[s] # NoTab,
                      NEW k \in 1 .. Len(down'[ccid[s]]), IsUri(down'[ccid[s]][k]),
                      NEW l \in 1 .. Len(shown'[s])
               PROVE  shown'[s][l] < down'[ccid[s]][k].uri
    BY <1>4 DEF ReadInOrder, IsUri
  <2>1. ccid[s] \in Tab
    BY DEF IInv, TypeOK
  <2>2. CASE s # t
    <3>1. ccid[s] # ccid[t]
      BY <1>2, <2>2 DEF IInv, Allocated
    <3>2. k \in 1 .. Len(down[ccid[s]]) /\ down'[ccid[s]][k] = down[ccid[s]][k]
      BY <1>9, <2>1, <3>1
    <3> QED
      BY <1>8, <2>2, <3>2 DEF IInv, ReadInOrder
  <2>3. CASE s = t
    <3>1. /\ k + 1 \in 1 .. Len(down[ccid[t]])
          /\ down'[ccid[t]][k] = down[ccid[t]][k + 1]
      BY <1>2, <1>9, <2>3
    <3>2. CASE l \in 1 .. Len(shown[t]) /\ shown'[t][l] = shown[t][l]
      BY <1>2, <2>3, <3>1, <3>2 DEF IInv, ReadInOrder
    <3>3. CASE shown'[t][l] = u
      <4>1. 1 \in 1 .. (k + 1) - 1 /\ Ascending(down[ccid[t]])
        BY <1>2, <3>1 DEF IInv, Ordered
      <4> QED
        BY <1>3, <2>3, <3>1, <3>3, <4>1 DEF Ascending, msg, u
    <3> QED
      BY <1>8, <2>3, <3>2, <3>3
  <2> QED
    BY <2>2, <2>3
<1>17. PipesReclaimed'
  BY <1>4, <1>6 DEF IInv, PipesReclaimed, Killed
<1> QED
  BY <1>7, <1>11, <1>12, <1>13, <1>14, <1>15, <1>16, <1>17 DEF IInv

-----------------------------------------------------------------------------
(***************************************************************************)
(* Steps of the router: the first message of the pipe it looks at is taken *)
(* and handled.                                                            *)
(***************************************************************************)
LEMMA UpLost ==
    ASSUME TypeOK, NEW c \in Tab, Loses(up, up', c)
    PROVE  \A d \in Tab : \A k \in 1 .. Len(up'[d]) :
              \/ d # c /\ k \in 1 .. Len(up[d]) /\ up'[d][k] = up[d][k]
              \/ /\ d = c /\ k + 1 \in 1 .. Len(up[d])
                 /\ up'[d][k] = up[d][k + 1]
<1> SUFFICES ASSUME NEW d \in Tab, NEW k \in 1 .. Len(up'[d])
             PROVE  \/ d # c /\ k \in 1 .. Len(up[d]) /\ up'[d][k] = up[d][k]
                    \/ /\ d = c /\ k + 1 \in 1 .. Len(up[d])
                       /\ up'[d][k] = up[d][k + 1]
  OBVIOUS
<1>1. Len(up[d]) \in Nat
  BY DEF TypeOK
<1> QED
  BY <1>1 DEF Loses

\* A message that was in the pipe behind the one that is taken is still there.
LEMMA KilledLoses ==
    ASSUME TypeOK, NEW c \in Tab, Loses(up, up', c), Len(up[c]) \in Nat \ {0}
    PROVE  /\ \A d \in Tab \ {c} : Killed(d)' <=> Killed(d)
           /\ up[c][1].type # "TAB_KILLED" => (Killed(c)' <=> Killed(c))
<1>1. \A d \in Tab \ {c} : Killed(d)' <=> Killed(d)
  BY DEF Loses, Killed
<1>2. ASSUME NEW k \in 1 .. Len(up'[c]), up'[c][k].type = "TAB_KILLED"
      PROVE  Killed(c)
  <2>1. k + 1 \in 1 .. Len(up[c]) /\ up'[c][k] = up[c][k + 1]
    BY UpLost
  <2> QED
    BY <1>2, <2>1 DEF Killed
<1>3. ASSUME NEW k \in 1 .. Len(up[c]), up[c][k].type = "TAB_KILLED",
             up[c][1].type # "TAB_KILLED"
      PROVE  \E l \in 1 .. Len(up'[c]) : up'[c][l].type = "TAB_KILLED"
  <2>1. k # 1
    BY <1>3
  <2>2. k - 1 \in 1 .. Len(up'[c]) /\ (k - 1) + 1 = k
    BY <2>1 DEF Loses
  <2>3. up'[c][k - 1] = up[c][k]
    BY <2>2 DEF Loses
  <2> QED
    BY <1>3, <2>2, <2>3
<1> QED
  BY <1>1, <1>2, <1>3 DEF Killed

LEMMA Taken ==
    ASSUME IInv, NEW type, Pending(type), Consume
    PROVE  /\ poll \in Tab /\ poll' \in 0 .. UNRECLAIMED_TAB_COUNTER
           /\ valid[poll] /\ Loses(up, up', poll)
           /\ Len(up[poll]) \in Nat \ {0}
           /\ \A c \in Tab : Len(up'[c]) <= PipeSize
           /\ Head(up[poll]) = up[poll][1] /\ up[poll][1] \in Message
           /\ up[poll][1].type = type /\ UpMessage(poll, 1, up[poll][1])
           /\ Ascending(up'[0])
<1>1. poll \in Tab /\ poll' \in 0 .. UNRECLAIMED_TAB_COUNTER
  BY BoundsAssumption DEF Pending, Polled, Consume, IInv, TypeOK, Tab
<1>2. /\ up \in [Tab -> Seq(Message)] /\ up[poll] # << >>
      /\ \A c \in Tab : Len(up[c]) <= PipeSize
  BY DEF IInv, TypeOK, Pending
<1>3. /\ Loses(up, up', poll)
      /\ Head(up[poll]) = up[poll][1]
      /\ Len(up[poll]) \in Nat \ {0} /\ Head(up[poll]) \in Message
  BY <1>1, <1>2, TailLoses DEF Consume
<1>4. \A c \in Tab : Len(up'[c]) <= PipeSize
  <2>1. Len(up'[poll]) <= PipeSize
    BY <1>1, <1>2, <1>3, BoundsAssumption DEF Loses
  <2>2. \A c \in Tab \ {poll} : up'[c] = up[c]
    BY <1>3 DEF Loses
  <2> QED
    BY <1>2, <2>1, <2>2
<1>5. UpMessage(poll, 1, up[poll][1])
  BY <1>1, <1>3 DEF IInv, UpOK
<1>6. Ascending(up'[0])
  <2>1. Ascending(up[0]) /\ 0 \in Tab
    BY BoundsAssumption DEF IInv, Ordered, Tab
  <2>2. CASE poll # 0
    BY <1>3, <2>1, <2>2 DEF Loses
  <2>3. CASE poll = 0
    <3> SUFFICES ASSUME NEW k \in 1 .. Len(up'[0]), NEW l \in 1 .. k - 1,
                        IsUri(up'[0][k]), IsUri(up'[0][l])
                 PROVE  up'[0][l].uri < up'[0][k].uri
      BY DEF Ascending
    <3>1. /\ k + 1 \in 1 .. Len(up[0]) /\ l + 1 \in 1 .. (k + 1) - 1
          /\ up'[0][k] = up[0][k + 1] /\ up'[0][l] = up[0][l + 1]
      BY <1>3, <2>3 DEF Loses
    <3> QED
      BY <2>1, <3>1 DEF Ascending
  <2> QED
    BY <2>2, <2>3
<1> QED
  BY <1>1, <1>3, <1>4, <1>5, <1>6 DEF Pending

\* The router writes to a tab.
LEMMA ForwardGains ==
    ASSUME TypeOK, NEW c \in Tab, NEW msg \in Message, HasRoom(down[c]),
           down' = [down EXCEPT ![c] = Append(@, msg)]
    PROVE  /\ Gains(down, down', c, msg)
           /\ \A d \in Tab : Len(down'[d]) <= PipeSize
           /\ \A d \in Tab : \A k \in 1 .. Len(down'[d]) :
                 \/ d = c /\ k = Len(down[c]) + 1 /\ down'[d][k] = msg
                 \/ k \in 1 .. Len(down[d]) /\ down'[d][k] = down[d][k]
<1>1. down \in [Tab -> Seq(Message)] /\ \A d \in Tab : Len(down[d]) <= PipeSize
  BY DEF TypeOK
<1>2. Gains(down, down', c, msg)
  BY <1>1, AppendGains
<1>3. Len(down[c]) < PipeSize /\ Len(down[c]) \in Nat
  BY <1>1 DEF HasRoom
<1>4. Len(down'[c]) <= PipeSize
  BY <1>2, <1>3, BoundsAssumption DEF Gains
<1>5. \A d \in Tab \ {c} : down'[d] = down[d]
  BY <1>2 DEF Gains
<1>6. ASSUME NEW k \in 1 .. Len(down'[c])
      PROVE  \/ k = Len(down[c]) + 1 /\ down'[c][k] = msg
             \/ k \in 1 .. Len(down[c]) /\ down'[c][k] = down[c][k]
  BY <1>2, <1>3 DEF Gains
<1> QED
  BY <1>1, <1>2, <1>4, <1>5, <1>6

\* A URI is passed on to the pipe of the tab it was entered for, behind all
\* that were passed on before, or not at all.
LEMMA HandleUriIInv == ASSUME IInv, HandleUri PROVE IInv'
<1> DEFINE msg == up[poll][1]
           t == msg.tab
           u == msg.uri
<1>1. /\ Pending("NEW_URI_ENTERED") /\ Consume
      /\ UNCHANGED <<tables, proc, ccid, running, user, shown, forkfails, crashed>>
  BY DEF HandleUri
<1>2. /\ poll \in Tab /\ poll' \in 0 .. UNRECLAIMED_TAB_COUNTER
      /\ Loses(up, up', poll) /\ Len(up[poll]) \in Nat \ {0}
      /\ \A c \in Tab : Len(up'[c]) <= PipeSize
      /\ Head(up[poll]) = msg /\ msg \in Message /\ IsUri(msg)
      /\ UpMessage(poll, 1, msg) /\ Ascending(up'[0])
  BY <1>1, Taken DEF IsUri
<1>3. poll = 0 /\ t \in Tab /\ u \in Uri /\ EnteredFor(u, t)
  BY <1>2, MessageFields DEF UpMessage, IsUri
<1>4. UNCHANGED <<next_chan, next_tab, valid, windows, proc, ccid, running,
                  target, shown, entered, clicks, forkfails, crashed>>
  BY <1>1 DEF tables, user
<1>5. \/ UNCHANGED down
      \/ /\ ccid[t] \in Tab /\ ccid[t] # NoTab /\ HasRoom(down[ccid[t]])
         /\ down' = [down EXCEPT ![ccid[t]] = Append(@, msg)]
  <2>1. CASE is_tab_index_valid(t) /\ t # 0
    <3>1. /\ HasRoom(down[windows[t]])
          /\ down' = [down EXCEPT ![windows[t]] = Append(@, msg)]
      BY <1>2, <2>1 DEF HandleUri
    <3>2. windows[t] = ccid[t] /\ windows[t] # NoTab
      BY <1>3, <2>1 DEF is_tab_index_valid, IInv, Allocated
    <3>3. windows[t] \in Tab
      BY <1>3, <3>2 DEF IInv, TypeOK
    <3> QED
      BY <3>1, <3>2, <3>3
  <2>2. CASE ~ (is_tab_index_valid(t) /\ t # 0)
    BY <1>2, <2>2 DEF HandleUri
  <2> QED
    BY <2>1, <2>2
<1> HIDE DEF msg, t, u
<1>6. /\ down' \in [Tab -> Seq(Message)]
      /\ \A c \in Tab : Len(down'[c]) <= PipeSize
      /\ \A c \in Tab : \A k \in 1 .. Len(down'[c]) :
            \/ k \in 1 .. Len(down[c]) /\ down'[c][k] = down[c][k]
            \/ c = ccid[t] /\ k = Len(down[c]) + 1 /\ down'[c][k] = msg
  <2>1. CASE UNCHANGED down
    BY <2>1 DEF IInv, TypeOK
  <2>2. CASE ~ UNCHANGED down
    <3>1. /\ Gains(down, down', ccid[t], msg)
          /\ \A c \in Tab : Len(down'[c]) <= PipeSize
          /\ \A c \in Tab : \A k \in 1 .. Len(down'[c]) :
                \/ c = ccid[t] /\ k = Len(down[ccid[t]]) + 1 /\ down'[c][k] = msg
                \/ k \in 1 .. Len(down[c]) /\ down'[c][k] = down[c][k]
      BY <1>2, <1>5, <2>2, ForwardGains DEF IInv
    <3> QED
      BY <3>1 DEF Gains
  <2> QED
    BY <2>1, <2>2
<1>7. \A c \in Tab : \A k \in 1 .. Len(up'[c]) :
         \/ c # 0 /\ k \in 1 .. Len(up[c]) /\ up'[c][k] = up[c][k]
         \/ c = 0 /\ k + 1 \in 1 .. Len(up[c]) /\ up'[c][k] = up[c][k + 1]
  BY <1>2, <1>3, UpLost DEF IInv
<1>8. 1 \in 1 .. Len(up[0]) /\ up[0][1] = msg
  BY <1>2, <1>3 DEF msg
<1>9. TypeOK'
  <2>1. up' \in [Tab -> Seq(Message)]
    BY <1>2 DEF Loses
  <2> QED
    BY <1>2, <1>4, <1>6, <2>1 DEF IInv, TypeOK
<1>10. Allocated'
  BY <1>4 DEF IInv, Allocated
<1>11. UpOK'
  <2> SUFFICES ASSUME NEW c \in Tab, NEW k \in 1 .. Len(up'[c])
               PROVE  UpMessage(c, k, up[c][k])'
    BY DEF UpOK
  <2>1. CASE c # 0
    <3>1. up'[c] = up[c] /\ UpMessage(c, k, up[c][k])
      BY <1>2, <1>3, <2>1 DEF Loses, IInv, UpOK
    <3> QED
      BY <1>4, <2>1, <3>1 DEF UpMessage
  <2>2. CASE c = 0
    <3>1. k + 1 \in 1 .. Len(up[0]) /\ up'[0][k] = up[0][k + 1]
      BY <1>7, <2>2
    <3>2. UpMessage(0, k + 1, up[0][k + 1])
      BY <2>2, <3>1 DEF IInv, UpOK
    <3>3. k + 1 = Len(up[0]) => k = Len(up'[0])
      BY <1>2, <1>3, <3>1 DEF Loses
    <3> QED
      BY <1>4, <2>2, <3>1, <3>2, <3>3 DEF UpMessage, EnteredFor, IsUri
  <2> QED
    BY <2>1, <2>2
<1>12. DownOK'
  <2> SUFFICES ASSUME NEW c \in Tab, NEW k \in 1 .. Len(down'[c])
               PROVE  DownMessage(c, down[c][k])'
    BY DEF DownOK
  <2>1. CASE k \in 1 .. Len(down[c]) /\ down'[c][k] = down[c][k]
    BY <1>4, <2>1 DEF IInv, DownOK, DownMessage, EnteredFor, IsUri
  <2>2. CASE c = ccid[t] /\ down'[c][k] = msg
    BY <1>2, <1>3, <1>4, <2>2 DEF DownMessage, EnteredFor, IsUri, t, u
  <2> QED
    BY <1>6, <2>1, <2>2
<1>13. ShownOK'
  BY <1>4 DEF IInv, ShownOK, EnteredFor
<1>14. /\ \A c \in Tab : \A l \in 1 .. Len(down[c]) :
             IsUri(down[c][l]) => down[c][l].uri < u
       /\ \A s \in Tab : \A l \in 1 .. Len(shown[s]) : shown[s][l] < u
  BY <1>2, <1>8 DEF IInv, PassedInOrder, u
<1>15. Ordered'
  <2>1. ASSUME NEW c \in Tab
        PROVE  Ascending(down'[c])
    <3> SUFFICES ASSUME NEW k \in 1 .. Len(down'[c]), NEW l \in 1 .. k - 1,
                        IsUri(down'[c][k]), IsUri(down'[c][l])
                 PROVE  down'[c][l].uri < down'[c][k].uri
      BY DEF Ascending
    <3>1. Len(down[c]) \in Nat /\ Ascending(down[c])
      BY PipeTypes DEF IInv, Ordered
    <3>2. l \in 1 .. Len(down'[c]) /\ (k \in 1 .. Len(down[c]) \/ k = Len(down[c]) + 1)
      BY <1>6, <3>1
    <3>3. l \in 1 .. Len(down[c]) /\ down'[c][l] = down[c][l]
      BY <1>6, <3>1, <3>2
    <3>4. CASE k \in 1 .. Len(down[c]) /\ down'[c][k] = down[c][k]
      BY <3>1, <3>3, <3>4 DEF Ascending
    <3>5. CASE down'[c][k] = msg
      BY <1>14, <3>3, <3>5 DEF u
    <3> QED
      BY <1>6, <3>4, <3>5
  <2> QED
    BY <1>2, <1>4, <2>1 DEF IInv, Ordered
<1>16. PassedInOrder'
  <2> SUFFICES ASSUME NEW k \in 1 .. Len(up'[0]), IsUri(up'[0][k])
               PROVE  /\ \A c \in Tab : \A l \in 1 .. Len(down'[c]) :
                            IsUri(down'[c][l]) => down'[c][l].uri < up'[0][k].uri
                      /\ \A s \in Tab : \A l \in 1 .. Len(shown[s]) :
                            shown[s][l] < up'[0][k].uri
    BY <1>4 DEF PassedInOrder, IsUri
  <2>1. k + 1 \in 1 .. Len(up[0]) /\ up'[0][k] = up[0][k + 1]
    BY <1>2, <1>3, <1>7
  <2>2. u < up'[0][k].uri
    <3>1. 1 \in 1 .. (k + 1) - 1 /\ Ascending(up[0])
      BY <2>1 DEF IInv, Ordered
    <3> QED
      BY <1>2, <1>8, <2>1, <3>1 DEF Ascending, u
  <2>3. /\ \A c \in Tab : \A l \in 1 .. Len(down[c]) :
              IsUri(down[c][l]) => down[c][l].uri < up'[0][k].uri
        /\ \A s \in Tab : \A l \in 1 .. Len(shown[s]) :
              shown[s][l] < up'[0][k].uri
    BY <2>1 DEF IInv, PassedInOrder
  <2> QED
    BY <1>6, <2>2, <2>3 DEF u
<1>17. ReadInOrder'
  <2> SUFFICES ASSUME NEW s \in Tab, ccid[s] # NoTab,
                      NEW k \in 1 .. Len(down'[ccid[s]]), IsUri(down'[ccid[s]][k]),
                      NEW l \in 1 .. Len(shown[s])
               PROVE  shown[s][l] < down'[ccid[s]][k].uri
    BY <1>4 DEF ReadInOrder, IsUri
  <2>1. ccid[s] \in Tab
    BY DEF IInv, TypeOK
  <2>2. CASE /\ k \in 1 .. Len(down[ccid[s]])
             /\ down'[ccid[s]][k] = down[ccid[s]][k]
    BY <2>2 DEF IInv, ReadInOrder
  <2>3. CASE down'[ccid[s]][k] = msg
    BY <1>14, <2>3 DEF u
  <2> QED
    BY <1>6, <2>1, <2>2, <2>3
<1>18. PipesReclaimed'
  <2>1. \A c \in Tab : Killed(c)' <=> Killed(c)
    BY <1>2, <1>3, KilledLoses DEF IInv, IsUri, msg
  <2> QED
    BY <1>4, <2>1, NoTabAssumption DEF IInv, PipesReclaimed, TypeOK
<1> QED
  BY <1>9, <1>10, <1>11, <1>12, <1>13, <1>15, <1>16, <1>17, <1>18 DEF IInv

\* The channel that is closed and the window that is cleared are those of the
\* tab that was killed, and nothing else comes through the channel.
LEMMA HandleTabKilledIInv == ASSUME IInv, HandleTabKilled PROVE IInv'
<1> DEFINE msg == up[poll][1]
           t == msg.tab
<1>1. /\ Pending("TAB_KILLED") /\ Consume
      /\ valid' = [valid EXCEPT ![poll] = FALSE]
      /\ UNCHANGED <<next_chan, next_tab, proc, ccid, running, user, shown,
                     forkfails, crashed>>
  BY DEF HandleTabKilled
<1>2. /\ poll \in Tab /\ poll' \in 0 .. UNRECLAIMED_TAB_COUNTER
      /\ Loses(up, up', poll) /\ Len(up[poll]) \in Nat \ {0}
      /\ \A c \in Tab : Len(up'[c]) <= PipeSize
      /\ Head(up[poll]) = msg /\ msg \in Message /\ msg.type = "TAB_KILLED"
      /\ UpMessage(poll, 1, msg) /\ Ascending(up'[0])
  BY <1>1, Taken
<1>3. /\ t \in Tab /\ Len(up[poll]) = 1 /\ ccid[t] = poll
      /\ proc[t] # "open" /\ windows[t] = poll
      /\ ~ IsUri(msg)
  BY <1>2, MessageFields DEF UpMessage, IsUri
<1>4. /\ HasRoom(down[poll])
      /\ down' = [down EXCEPT ![poll] = Append(@, msg)]
      /\ windows' = [windows EXCEPT ![t] = NoTab]
  BY <1>2, <1>3 DEF HandleTabKilled
<1>5. UNCHANGED <<next_chan, next_tab, proc, ccid, running, target, shown,
                  entered, clicks, forkfails, crashed>>
  BY <1>1 DEF user
<1> HIDE DEF msg, t
<1>6. /\ Gains(down, down', poll, msg)
      /\ \A c \in Tab : Len(down'[c]) <= PipeSize
      /\ \A c \in Tab : \A k \in 1 .. Len(down'[c]) :
            \/ c = poll /\ k = Len(down[poll]) + 1 /\ down'[c][k] = msg
            \/ k \in 1 .. Len(down[c]) /\ down'[c][k] = down[c][k]
  BY <1>2, <1>4, ForwardGains DEF IInv
<1>7. /\ Len(up'[poll]) = 0 /\ \A c \in Tab \ {poll} : up'[c] = up[c]
      /\ up' \in [Tab -> Seq(Message)]
  BY <1>2, <1>3 DEF Loses
<1>8. /\ \A c \in Tab \ {poll} : valid'[c] = valid[c]
      /\ ~ valid'[poll] /\ valid' \in [Tab -> BOOLEAN]
      /\ \A s \in Tab \ {t} : windows'[s] = windows[s]
      /\ windows'[t] = NoTab /\ windows' \in [Tab -> Tab \cup {NoTab}]
  BY <1>1, <1>2, <1>3, <1>4 DEF IInv, TypeOK
<1>9. \A s \in Tab : ccid[s] = poll => s = t
  BY <1>2, <1>3, NoTabAssumption DEF IInv, Allocated
<1>10. TypeOK'
  <2>1. down' \in [Tab -> Seq(Message)]
    BY <1>6 DEF Gains
  <2> QED
    BY <1>2, <1>5, <1>6, <1>7, <1>8, <2>1 DEF IInv, TypeOK
<1>11. Allocated'
  BY <1>5, <1>8 DEF IInv, Allocated
<1>12. UpOK'
  <2> SUFFICES ASSUME NEW c \in Tab, NEW k \in 1 .. Len(up'[c])
               PROVE  UpMessage(c, k, up[c][k])'
    BY DEF UpOK
  <2>1. c # poll /\ up'[c] = up[c]
    BY <1>7
  <2>2. UpMessage(c, k, up[c][k]) /\ up[c][k].tab \in Tab
    BY <2>1, PipeTypes, MessageFields DEF IInv, UpOK
  <2>3. CASE up[c][k].type = "TAB_KILLED"
    <3>1. ccid[up[c][k].tab] = c
      BY <2>2, <2>3 DEF UpMessage, IsUri
    <3>2. up[c][k].tab # t
      BY <1>3, <2>1, <3>1
    <3> QED
      BY <1>5, <1>8, <2>1, <2>2, <3>2 DEF UpMessage, IsUri, EnteredFor
  <2>4. CASE up[c][k].type # "TAB_KILLED"
    BY <1>5, <2>1, <2>2, <2>4 DEF UpMessage, IsUri, EnteredFor
  <2> QED
    BY <2>3, <2>4
<1>13. DownOK'
  <2> SUFFICES ASSUME NEW c \in Tab, NEW k \in 1 .. Len(down'[c])
               PROVE  DownMessage(c, down[c][k])'
    BY DEF DownOK
  <2>1. CASE k \in 1 .. Len(down[c]) /\ down'[c][k] = down[c][k]
    <3>1. DownMessage(c, down[c][k])
      BY <2>1 DEF IInv, DownOK
    <3>2. ~ valid[c] => ~ valid'[c]
      BY <1>8
    <3> QED
      BY <1>5, <2>1, <3>1, <3>2 DEF DownMessage, EnteredFor, IsUri
  <2>2. CASE c = poll /\ down'[c][k] = msg
    BY <1>2, <1>3, <1>5, <1>8, <2>2 DEF DownMessage, IsUri, t
  <2> QED
    BY <1>6, <2>1, <2>2
<1>14. ShownOK'
  BY <1>5 DEF IInv, ShownOK, EnteredFor
<1>15. \A c \in Tab : \A k \in 1 .. Len(down'[c]) : IsUri(down'[c][k]) =>
          k \in 1 .. Len(down[c]) /\ down'[c][k] = down[c][k]
  BY <1>3, <1>6
<1>16. Ordered'
  <2>1. ASSUME NEW c \in Tab
        PROVE  Ascending(down'[c])
    <3> SUFFICES ASSUME NEW k \in 1 .. Len(down'[c]), NEW l \in 1 .. k - 1,
                        IsUri(down'[c][k]), IsUri(down'[c][l])
                 PROVE  down'[c][l].uri < down'[c][k].uri
      BY DEF Ascending
    <3>1. k \in 1 .. Len(down[c]) /\ down'[c][k] = down[c][k]
      BY <1>15
    <3>2. l \in 1 .. Len(down'[c])
      <4>1. Len(down'[c]) \in Nat
        BY <1>6 DEF Gains
      <4> QED
        BY <4>1
    <3>3. l \in 1 .. Len(down[c]) /\ down'[c][l] = down[c][l]
      BY <1>15, <3>2
    <3> QED
      BY <3>1, <3>3 DEF IInv, Ordered, Ascending
  <2> QED
    BY <1>2, <1>5, <2>1 DEF IInv, Ordered
<1>17. PassedInOrder'
  <2> SUFFICES ASSUME NEW k \in 1 .. Len(up'[0]), IsUri(up'[0][k])
               PROVE  /\ \A c \in Tab : \A l \in 1 .. Len(down'[c]) :
                            IsUri(down'[c][l]) => down'[c][l].uri < up'[0][k].uri
                      /\ \A s \in Tab : \A l \in 1 .. Len(shown[s]) :
                            shown[s][l] < up'[0][k].uri
    BY <1>5 DEF PassedInOrder, IsUri
  <2>1. 0 \in Tab
    BY BoundsAssumption DEF Tab
  <2>2. up'[0] = up[0]
    BY <1>7, <2>1
  <2> QED
    BY <1>15, <2>2 DEF IInv, PassedInOrder
<1>18. ReadInOrder'
  <2> SUFFICES ASSUME NEW s \in Tab, ccid[s] # NoTab,
                      NEW k \in 1 .. Len(down'[ccid[s]]), IsUri(down'[ccid[s]][k]),
                      NEW l \in 1 .. Len(shown[s])
               PROVE  shown[s][l] < down'[ccid[s]][k].uri
    BY <1>5 DEF ReadInOrder, IsUri
  <2>1. ccid[s] \in Tab
    BY DEF IInv, TypeOK
  <2> QED
    BY <1>15, <2>1 DEF IInv, ReadInOrder
<1>19. PipesReclaimed'
  <2>1. \A c \in Tab : /\ c = poll => ~ Killed(c)'
                       /\ c # poll => (Killed(c)' <=> Killed(c))
    BY <1>7 DEF Killed
  <2>2. \A s \in Tab : windows'[s] # NoTab => valid'[windows'[s]]
    <3> SUFFICES ASSUME NEW s \in Tab, windows'[s] # NoTab
                 PROVE  valid'[windows'[s]]
      OBVIOUS
    <3>1. s # t /\ windows'[s] = windows[s] /\ windows[s] \in Tab
      BY <1>8 DEF IInv, TypeOK
    <3>2. windows[s] = ccid[s] /\ valid[windows[s]]
      BY <3>1 DEF IInv, Allocated, PipesReclaimed
    <3>3. windows[s] # poll
      BY <1>9, <3>1, <3>2
    <3> QED
      BY <1>8, <3>1, <3>2, <3>3
  <2>3. ASSUME NEW s \in Tab \ {t}
        PROVE  /\ proc[s] = "open" => valid'[ccid[s]] /\ windows'[s] = ccid[s]
               /\ proc[s] \in {"closing", "dead", "reaped"} /\ s \notin crashed =>
                     (valid'[ccid[s]] <=> Killed(ccid[s])')
    <3> SUFFICES ASSUME proc[s] # "none"
                 PROVE  /\ proc[s] = "open" =>
                              valid'[ccid[s]] /\ windows'[s] = ccid[s]
                        /\ /\ proc[s] \in {"closing", "dead", "reaped"}
                           /\ s \notin crashed
                           => (valid'[ccid[s]] <=> Killed(ccid[s])')
      OBVIOUS
    <3>1. ccid[s] \in Tab /\ ccid[s] # poll
      BY <1>9 DEF IInv, TypeOK
    <3>2. Killed(ccid[s])' <=> Killed(ccid[s])
      BY <1>5, <2>1, <3>1
    <3>3. valid'[ccid[s]] = valid[ccid[s]] /\ windows'[s] = windows[s]
      BY <1>8, <3>1
    <3> QED
      BY <3>2, <3>3 DEF IInv, PipesReclaimed
  <2>4. ASSUME NEW s \in Tab, s = t
        PROVE  proc[s] # "open" /\ ~ valid'[ccid[s]] /\ ~ Killed(ccid[s])'
    <3>1. ccid'[s] = poll
      BY <1>3, <1>5, <2>4
    <3>2. ~ Killed(ccid[s])'
      BY <1>2, <2>1, <3>1
    <3> QED
      BY <1>3, <1>8, <2>4, <3>2
  <2> QED
    BY <1>5, <2>2, <2>3, <2>4 DEF PipesReclaimed
<1> QED
  BY <1>10, <1>11, <1>12, <1>13, <1>14, <1>16, <1>17, <1>18, <1>19 DEF IInv

\* A tab with a process has a number and a channel that were handed out.
LEMMA HandedOut ==
    ASSUME IInv
    PROVE  \A t \in Tab :
              /\ ccid[t] # NoTab \/ proc[t] # "none" \/ windows[t] # NoTab =>
                    /\ proc[t] # "none" /\ t < next_tab
                    /\ ccid[t] \in Tab /\ ccid[t] # NoTab /\ ccid[t] < next_chan
              /\ windows[t] # NoTab => windows[t] = ccid[t]
<1> SUFFICES ASSUME NEW t \in Tab,
                    ccid[t] # NoTab \/ proc[t] # "none" \/ windows[t] # NoTab
             PROVE  /\ proc[t] # "none" /\ t < next_tab
                    /\ ccid[t] \in Tab /\ ccid[t] # NoTab /\ ccid[t] < next_chan
  BY DEF IInv, Allocated
<1>1. proc[t] # "none"
  BY DEF IInv, TypeOK, Allocated
<1> QED
  BY <1>1 DEF IInv, TypeOK, Allocated

\* What CREATE_TAB does to the tables: what has been handed out stays as it
\* is, and there may be one more renderer, with the next tab and the next
\* channel.
LEMMA CreateTabTables ==
    ASSUME IInv, HandleCreateTab
    PROVE  /\ next_chan' \in next_chan .. UNRECLAIMED_TAB_COUNTER
           /\ next_tab' \in next_tab .. next_chan'
           /\ valid' \in [Tab -> BOOLEAN]
           /\ \A c \in Tab : c < next_chan => valid'[c] = valid[c]
           /\ forkfails' \in 0 .. MaxForkFailures
           /\ \/ UNCHANGED <<windows, ccid, proc>>
              \/ /\ ForkRenderer /\ valid'[next_chan]
                 /\ next_tab \in Tab /\ next_chan \in Tab
                 /\ next_tab < next_tab' /\ next_chan < next_chan'
<1>1. /\ next_chan \in Nat /\ next_chan <= UNRECLAIMED_TAB_COUNTER
      /\ next_tab \in 1 .. next_chan /\ UNRECLAIMED_TAB_COUNTER \in Nat
      /\ valid \in [Tab -> BOOLEAN] /\ forkfails \in 0 .. MaxForkFailures
      /\ MaxForkFailures \in Nat
  BY BoundsAssumption DEF IInv, TypeOK, Allocated
<1>2. CASE NoChannelLeft
  <2>1. UNCHANGED <<next_chan, next_tab, valid, windows, ccid, proc, forkfails>>
    BY <1>2 DEF HandleCreateTab, tables
  <2> QED
    BY <1>1, <2>1
<1>3. CASE ~ NoChannelLeft
  <2>1. next_chan \in Tab /\ next_tab \in Tab
    BY <1>1, <1>3 DEF NoChannelLeft, Tab
  <2>2. next_chan' = next_chan + 1 /\ valid' = [valid EXCEPT ![next_chan] = TRUE]
    BY <1>3 DEF HandleCreateTab
  <2>3. /\ next_chan' \in next_chan .. UNRECLAIMED_TAB_COUNTER
        /\ valid' \in [Tab -> BOOLEAN] /\ valid'[next_chan]
        /\ \A c \in Tab : c < next_chan => valid'[c] = valid[c]
    <3>1. next_chan' \in next_chan .. UNRECLAIMED_TAB_COUNTER
      BY <1>1, <1>3, <2>2 DEF NoChannelLeft
    <3>2. /\ valid' \in [Tab -> BOOLEAN] /\ valid'[next_chan]
          /\ \A c \in Tab \ {next_chan} : valid'[c] = valid[c]
      BY <1>1, <2>1, <2>2
    <3> QED
      BY <1>1, <3>1, <3>2
  <2>4. CASE NoTabLeft
    <3>1. UNCHANGED <<next_tab, windows, proc, ccid, forkfails>>
      BY <1>3, <2>4 DEF HandleCreateTab
    <3>2. next_tab' \in next_tab .. next_chan'
      BY <1>1, <2>2, <3>1
    <3> QED
      BY <1>1, <2>3, <3>1, <3>2
  <2>5. CASE ~ NoTabLeft
    <3>1. next_tab' = next_tab + 1
      BY <1>3, <2>5 DEF HandleCreateTab
    <3>2. /\ next_tab' \in next_tab .. next_chan' /\ next_tab < next_tab'
          /\ next_chan < next_chan'
      BY <1>1, <2>2, <3>1
    <3>3. CASE ForkRenderer /\ UNCHANGED forkfails
      <4>1. forkfails' \in 0 .. MaxForkFailures
        BY <1>1, <3>3
      <4> QED
        BY <2>1, <2>3, <3>2, <3>3, <4>1
    <3>4. CASE /\ forkfails < MaxForkFailures /\ forkfails' = forkfails + 1
               /\ UNCHANGED <<windows, ccid, proc>>
      BY <1>1, <2>3, <3>2, <3>4
    <3> QED
      BY <1>3, <2>5, <3>3, <3>4 DEF HandleCreateTab
  <2> QED
    BY <2>4, <2>5
<1> QED
  BY <1>2, <1>3

\* The tables of a tab that has been handed out.
LEMMA CreateTabKeeps ==
    ASSUME IInv, HandleCreateTab, NEW t \in Tab, ccid[t] # NoTab
    PROVE  /\ ccid'[t] = ccid[t] /\ proc'[t] = proc[t] /\ windows'[t] = windows[t]
           /\ valid'[ccid[t]] = valid[ccid[t]]
<1>1. t < next_tab /\ ccid[t] \in Tab /\ ccid[t] < next_chan
  BY HandedOut
<1>2. valid'[ccid[t]] = valid[ccid[t]]
  BY <1>1, CreateTabTables
<1>3. t # next_tab
  BY <1>1 DEF IInv, Allocated, TypeOK, Tab
<1>4. CASE UNCHANGED <<windows, ccid, proc>>
  BY <1>2, <1>4
<1>5. CASE ForkRenderer
  BY <1>2, <1>3, <1>5 DEF ForkRenderer, IInv, TypeOK
<1> QED
  BY <1>4, <1>5, CreateTabTables

\* The channel that is handed out is new: nothing is under way in it for
\* anybody.
LEMMA HandleCreateTabIInv == ASSUME IInv, HandleCreateTab PROVE IInv'
<1> DEFINE msg == up[poll][1]
<1>1. /\ Pending("CREATE_TAB") /\ Consume
      /\ UNCHANGED <<down, running, user, shown, crashed>>
  BY DEF HandleCreateTab
<1>2. /\ poll \in Tab /\ poll' \in 0 .. UNRECLAIMED_TAB_COUNTER
      /\ Loses(up, up', poll) /\ Len(up[poll]) \in Nat \ {0}
      /\ \A c \in Tab : Len(up'[c]) <= PipeSize
      /\ msg \in Message /\ msg.type = "CREATE_TAB"
      /\ UpMessage(poll, 1, msg) /\ Ascending(up'[0])
  BY <1>1, Taken
<1>3. poll = 0
  BY <1>2 DEF UpMessage, IsUri
<1> HIDE DEF msg
<1>4. UNCHANGED <<down, running, target, entered, clicks, shown, crashed>>
  BY <1>1 DEF user
<1>5. /\ next_chan' \in next_chan .. UNRECLAIMED_TAB_COUNTER
      /\ next_tab' \in next_tab .. next_chan'
      /\ valid' \in [Tab -> BOOLEAN]
      /\ \A c \in Tab : c < next_chan => valid'[c] = valid[c]
      /\ forkfails' \in 0 .. MaxForkFailures
      /\ \/ UNCHANGED <<windows, ccid, proc>>
         \/ /\ ForkRenderer /\ valid'[next_chan]
            /\ next_tab \in Tab /\ next_chan \in Tab
            /\ next_tab < next_tab' /\ next_chan < next_chan'
  BY CreateTabTables
<1>6. /\ next_chan \in Nat /\ next_tab \in 1 .. next_chan
      /\ UNRECLAIMED_TAB_COUNTER \in Nat /\ Tab \subseteq Nat
  BY BoundsAssumption DEF IInv, TypeOK, Allocated, Tab
<1>7. \A t \in Tab : ccid[t] # NoTab =>
         /\ ccid[t] \in Tab /\ ccid[t] < next_chan /\ t < next_tab
         /\ ccid'[t] = ccid[t] /\ proc'[t] = proc[t] /\ windows'[t] = windows[t]
         /\ valid'[ccid[t]] = valid[ccid[t]]
  BY HandedOut, CreateTabKeeps
\* A tab without a channel still has none, or is the one that is forked.
<1>8. \A t \in Tab : ccid[t] = NoTab =>
         \/ /\ ccid'[t] = NoTab /\ proc'[t] = "none" /\ windows'[t] = NoTab
         \/ /\ t = next_tab /\ next_chan \in Tab
            /\ ccid'[t] = next_chan /\ proc'[t] = "open" /\ windows'[t] = next_chan
            /\ valid'[next_chan] /\ next_tab < next_tab' /\ next_chan < next_chan'
  <2> SUFFICES ASSUME NEW t \in Tab, ccid[t] = NoTab
               PROVE  \/ /\ ccid'[t] = NoTab /\ proc'[t] = "none"
                         /\ windows'[t] = NoTab
                      \/ /\ t = next_tab /\ next_chan \in Tab
                         /\ ccid'[t] = next_chan /\ proc'[t] = "open"
                         /\ windows'[t] = next_chan /\ valid'[next_chan]
                         /\ next_tab < next_tab' /\ next_chan < next_chan'
    OBVIOUS
  <2>1. proc[t] = "none" /\ windows[t] = NoTab
    BY HandedOut
  <2>2. CASE UNCHANGED <<windows, ccid, proc>>
    BY <2>1, <2>2
  <2>3. CASE ForkRenderer
    BY <1>5, <2>1, <2>3 DEF ForkRenderer, IInv, TypeOK
  <2> QED
    BY <1>5, <2>2, <2>3
<1>9. TypeOK'
  <2>1. up' \in [Tab -> Seq(Message)]
    BY <1>2 DEF Loses
  <2>2. /\ windows' \in [Tab -> Tab \cup {NoTab}]
        /\ ccid' \in [Tab -> Tab \cup {NoTab}]
        /\ proc' \in [Tab -> {"none", "open", "closing", "dead", "reaped"}]
    <3>1. CASE UNCHANGED <<windows, ccid, proc>>
      BY <3>1 DEF IInv, TypeOK
    <3>2. CASE ForkRenderer /\ next_chan \in Tab
      BY <3>2 DEF ForkRenderer, IInv, TypeOK
    <3> QED
      BY <1>5, <3>1, <3>2
  <2>3. \A t \in Tab : ccid'[t] = NoTab <=> proc'[t] = "none"
    <3> SUFFICES ASSUME NEW t \in Tab
                 PROVE  ccid'[t] = NoTab <=> proc'[t] = "none"
      OBVIOUS
    <3>1. CASE ccid[t] # NoTab
      BY <1>7, <3>1 DEF IInv, TypeOK
    <3>2. CASE ccid[t] = NoTab
      BY <1>8, <3>2, NoTabAssumption
    <3> QED
      BY <3>1, <3>2
  <2>4. {next_chan', next_tab'} \subseteq 0 .. UNRECLAIMED_TAB_COUNTER
    BY <1>5, <1>6
  <2> QED
    BY <1>2, <1>4, <1>5, <2>1, <2>2, <2>3, <2>4 DEF IInv, TypeOK
<1>10. Allocated'
  <2>1. next_tab' \in 1 .. next_chan'
    BY <1>5, <1>6
  <2>2. ASSUME NEW t \in Tab, ccid'[t] # NoTab
        PROVE  /\ t < next_tab' /\ ccid'[t] < next_chan'
               /\ windows'[t] # NoTab => windows'[t] = ccid'[t]
    <3>1. CASE ccid[t] # NoTab
      <4>1. ccid[t] \in Nat
        BY <1>6, <1>7, <3>1
      <4> QED
        BY <1>5, <1>6, <1>7, <3>1, <4>1 DEF IInv, Allocated
    <3>2. CASE ccid[t] = NoTab
      BY <1>8, <2>2, <3>2
    <3> QED
      BY <3>1, <3>2
  <2>3. ASSUME NEW s \in Tab, NEW t \in Tab, ccid'[s] = ccid'[t], ccid'[t] # NoTab
        PROVE  s = t
    <3>1. CASE ccid[s] # NoTab /\ ccid[t] # NoTab
      BY <1>7, <2>3, <3>1 DEF IInv, Allocated
    <3>2. CASE ccid[s] = NoTab /\ ccid[t] = NoTab
      BY <1>8, <2>3, <3>2
    <3>3. CASE ccid[s] # NoTab /\ ccid[t] = NoTab
      <4>1. ccid[s] \in Nat /\ ccid[s] < next_chan /\ ccid[s] = next_chan
        BY <1>6, <1>7, <1>8, <2>3, <3>3
      <4> QED
        BY <1>6, <4>1
    <3>4. CASE ccid[s] = NoTab /\ ccid[t] # NoTab
      <4>1. ccid[t] \in Nat /\ ccid[t] < next_chan /\ ccid[t] = next_chan
        BY <1>6, <1>7, <1>8, <2>3, <3>4
      <4> QED
        BY <1>6, <4>1
    <3> QED
      BY <3>1, <3>2, <3>3, <3>4
  <2>4. ccid'[0] = 0
    <3>1. 0 \in Tab /\ ccid[0] = 0 /\ ccid[0] # NoTab
      BY <1>2, <1>3, NoTabAssumption DEF IInv, Allocated
    <3> QED
      BY <1>7, <3>1
  <2>5. \A t \in Tab : proc'[t] # "none" \/ windows'[t] # NoTab => ccid'[t] # NoTab
    BY <1>7, <1>8, <1>9, NoTabAssumption DEF TypeOK
  <2> QED
    BY <2>1, <2>2, <2>3, <2>4, <2>5 DEF Allocated
<1>11. UpOK'
  <2> SUFFICES ASSUME NEW c \in Tab, NEW k \in 1 .. Len(up'[c])
               PROVE  UpMessage(c, k, up[c][k])'
    BY DEF UpOK
  <2>1. PICK j \in 1 .. Len(up[c]) :
           up'[c][k] = up[c][j] /\ (j = Len(up[c]) => k = Len(up'[c]))
    <3>1. CASE c # 0
      BY <1>2, <1>3, <3>1 DEF Loses
    <3>2. CASE c = 0
      <4>1. k + 1 \in 1 .. Len(up[c]) /\ up'[c][k] = up[c][k + 1]
        BY <1>2, <1>3, <3>2, UpLost DEF IInv
      <4>2. k + 1 = Len(up[c]) => k = Len(up'[c])
        BY <1>2, <1>3, <3>2 DEF Loses
      <4> QED
        BY <4>1, <4>2
    <3> QED
      BY <3>1, <3>2
  <2>2. UpMessage(c, j, up[c][j]) /\ up[c][j].tab \in Tab
    BY PipeTypes, MessageFields DEF IInv, UpOK
  <2>3. CASE up[c][j].type = "TAB_KILLED"
    <3>1. ccid[up[c][j].tab] = c /\ ccid[up[c][j].tab] # NoTab
      BY <2>2, <2>3, NoTabAssumption DEF UpMessage, IsUri
    <3> QED
      BY <1>7, <2>1, <2>2, <2>3, <3>1 DEF UpMessage, IsUri
  <2>4. CASE up[c][j].type # "TAB_KILLED"
    BY <1>4, <2>1, <2>2, <2>4 DEF UpMessage, EnteredFor, IsUri
  <2> QED
    BY <2>3, <2>4
<1>12. DownOK'
  <2> SUFFICES ASSUME NEW c \in Tab, NEW k \in 1 .. Len(down[c])
               PROVE  DownMessage(c, down[c][k])'
    BY <1>4 DEF DownOK
  <2>1. DownMessage(c, down[c][k]) /\ down[c][k].tab \in Tab
    BY PipeTypes, MessageFields DEF IInv, DownOK
  <2>2. ccid[down[c][k].tab] = c /\ ccid[down[c][k].tab] # NoTab
    BY <2>1, NoTabAssumption DEF DownMessage
  <2> QED
    BY <1>4, <1>7, <2>1, <2>2 DEF DownMessage, EnteredFor, IsUri
<1>13. ShownOK'
  BY <1>4 DEF IInv, ShownOK, EnteredFor
<1>14. Ordered'
  BY <1>2, <1>4 DEF IInv, Ordered, Ascending, IsUri
<1>15. PassedInOrder'
  <2> SUFFICES ASSUME NEW k \in 1 .. Len(up'[0]), IsUri(up'[0][k])
               PROVE  /\ \A c \in Tab : \A l \in 1 .. Len(down[c]) :
                            IsUri(down[c][l]) => down[c][l].uri < up'[0][k].uri
                      /\ \A s \in Tab : \A l \in 1 .. Len(shown[s]) :
                            shown[s][l] < up'[0][k].uri
    BY <1>4 DEF PassedInOrder, IsUri
  <2>1. k + 1 \in 1 .. Len(up[0]) /\ up'[0][k] = up[0][k + 1]
    BY <1>2, <1>3, UpLost DEF IInv
  <2> QED
    BY <2>1 DEF IInv, PassedInOrder
<1>16. ReadInOrder'
  <2> SUFFICES ASSUME NEW t \in Tab, ccid'[t] # NoTab,
                      NEW k \in 1 .. Len(down[ccid'[t]]), IsUri(down[ccid'[t]][k]),
                      NEW l \in 1 .. Len(shown[t])
               PROVE  shown[t][l] < down[ccid'[t]][k].uri
    BY <1>4 DEF ReadInOrder, IsUri
  <2>1. CASE ccid[t] # NoTab
    BY <1>7, <2>1 DEF IInv, ReadInOrder
  <2>2. CASE ccid[t] = NoTab
    <3>1. ccid'[t] = next_chan /\ next_chan \in Tab
      BY <1>8, <2>2
    <3>2. ccid[down[next_chan][k].tab] = next_chan /\ down[next_chan][k].tab \in Tab
      BY <3>1, PipeTypes, MessageFields DEF IInv, DownOK, DownMessage
    <3>3. ~ (next_chan < next_chan)
      BY <1>6
    <3> QED
      BY <1>7, <3>1, <3>2, <3>3, NoTabAssumption
  <2> QED
    BY <2>1, <2>2
<1>17. PipesReclaimed'
  <2>1. \A c \in Tab : Killed(c)' <=> Killed(c)
    BY <1>2, <1>3, KilledLoses DEF IInv, msg
  <2> SUFFICES ASSUME NEW t \in Tab
               PROVE  /\ proc'[t] = "open" =>
                            valid'[ccid'[t]] /\ windows'[t] = ccid'[t]
                      /\ proc'[t] \in {"closing", "dead", "reaped"} /\ t \notin crashed =>
                            (valid'[ccid'[t]] <=> Killed(ccid[t])')
                      /\ windows'[t] # NoTab => valid'[windows'[t]]
    BY <1>4 DEF PipesReclaimed
  <2>2. CASE ccid[t] # NoTab
    <3>1. \A c \in Tab : c = ccid'[t] => (Killed(ccid[t])' <=> Killed(c))
      BY <2>1
    <3>2. Killed(ccid[t])' <=> Killed(ccid[t])
      BY <1>7, <2>2, <3>1
    <3>3. windows[t] # NoTab => windows[t] = ccid[t]
      BY DEF IInv, Allocated
    <3> QED
      BY <1>7, <2>2, <3>2, <3>3 DEF IInv, PipesReclaimed
  <2>3. CASE ccid[t] = NoTab
    BY <1>8, <2>3
  <2> QED
    BY <2>2, <2>3
<1> QED
  BY <1>9, <1>10, <1>11, <1>12, <1>13, <1>14, <1>15, <1>16, <1>17 DEF IInv

-----------------------------------------------------------------------------
LEMMA NextIInv == ASSUME IInv, [Next]_vars PROVE IInv'
<1>1. CASE new_tab_created_cb
  BY <1>1, NewTabIInv
<1>2. CASE \E t \in Tab : uri_entered_cb(t)
  BY <1>2, UriEnteredIInv
<1>3. CASE \E t \in Tab : delete_window_cb(t)
  BY <1>3, DeleteWindowIInv
<1>4. CASE PollNothing
  BY <1>4, PollNothingIInv
<1>5. CASE HandleUri
  BY <1>5, HandleUriIInv
<1>6. CASE HandleCreateTab
  BY <1>6, HandleCreateTabIInv
<1>7. CASE HandleTabKilled
  BY <1>7, HandleTabKilledIInv
<1>8. CASE router_reap_children
  BY <1>8, ReapIInv
<1>9. CASE \E t \in Tab : RenderUri(t)
  BY <1>9, RenderUriIInv
<1>10. CASE \E t \in Tab : EndRenderer(t)
  BY <1>10, EndRendererIInv
<1>11. CASE \E t \in Tab : Crash(t)
  BY <1>11, CrashIInv
<1>12. CASE UNCHANGED vars
  BY <1>12, StutterIInv
<1> QED
  BY <1>1, <1>2, <1>3, <1>4, <1>5, <1>6, <1>7, <1>8, <1>9, <1>10, <1>11, <1>12
  DEF Next, User, Router, Renderer

(***************************************************************************)
(* The theorems, for every number of tabs and every size of the pipes.     *)
(***************************************************************************)
LEMMA AlwaysIInv == Spec => []IInv
<1>1. Init => IInv
  BY InitIInv
<1>2. IInv /\ [Next]_vars => IInv'
  BY NextIInv
<1> QED
  BY <1>1, <1>2, PTL DEF Spec

\* The router's tables stay within their arrays, a pipe never holds more than
\* it can, and a process has a channel from its fork on.
THEOREM TypeCorrect == Spec => []TypeOK
<1>1. IInv => TypeOK
  BY DEF IInv
<1> QED
  BY <1>1, AlwaysIInv, PTL

\* A tab shows the URIs that were entered for it, in the order of entry, each
\* once, whatever fails on the way, and although router.c hands out tabs and
\* channels apart.
THEOREM UrisArrive == Spec => []UrisReachTheirTabs
<1>1. IInv => UrisReachTheirTabs
  BY DEF IInv, ShownOK, EnteredFor, Ordered, UrisReachTheirTabs
<1> QED
  BY <1>1, AlwaysIInv, PTL

\* The channel that router.c:205 closes and the window that line 206 clears
\* are those of one tab: no message TAB_KILLED comes from anybody else.
THEOREM KillerIsKilled == Spec => []KilledTabIsSender
<1>1. IInv => KilledTabIsSender
  BY DEF IInv, UpOK, UpMessage, IsUri, KilledTabIsSender
<1> QED
  BY <1>1, AlwaysIInv, PTL

\* A running tab keeps its pipes and its window, and one that ended without
\* a crash has lost them when its TAB_KILLED has been handled, and not before.
THEOREM PipesAlwaysReclaimed == Spec => []PipesReclaimed
<1>1. IInv => PipesReclaimed
  BY DEF IInv
<1> QED
  BY <1>1, AlwaysIInv, PTL
=============================================================================
