--------------------------- MODULE TcpClientProofs ---------------------------
(***************************************************************************)
(* Proofs about TcpClient, for any number of calls: the socket is that of  *)
(* the last Connect, and a connection that is open is in step.             *)
(*                                                                         *)
(* Neither is inductive.  The argument is the two counters': a lifecycle   *)
(* is one call's (LifecyclesDiffer), so of the attempts to connect only    *)
(* one may still open a socket, and by then it has closed the old one      *)
(* (CleanStart); hence no socket is opened twice in one epoch, and the     *)
(* epoch of an operation tells whether it is on the present socket         *)
(* (EpochTellsSocket).                                                     *)
(*                                                                         *)
(* An action is first brought down to what it does to the fields of a call *)
(* that the invariant speaks of, and to the socket.                        *)
(***************************************************************************)
EXTENDS TcpClient, TLAPS

\* What of a call the invariant speaks of, but for asked.
Alike(r, s) ==
    /\ r.kind = s.kind /\ r.mine = s.mine /\ r.ep = s.ep /\ r.on = s.on
    /\ r.stage = s.stage /\ r.answer = s.answer /\ r.torn = s.torn

Inductive == SocketInv /\ StreamStaysWhole

SocketKept == UNCHANGED <<connected, epoch, open>>
SocketClosed == connected' = FALSE /\ epoch' = epoch + 1 /\ open' = FALSE

LEMMA FieldTypes ==
    ASSUME TypeOK, NEW c \in Calls
    PROVE  /\ calls[c].kind \in Kinds /\ calls[c].stage \in Stages
           /\ calls[c].mine \in Nat /\ calls[c].ep \in Nat /\ calls[c].on \in Nat
           /\ calls[c].answer \in {"none", "no", "yes"} /\ calls[c].torn \in BOOLEAN
           /\ calls[c].asked \in BOOLEAN
BY DEF TypeOK, CallState

\* What the updates of a call leave of it.
LEMMA MineUpdate ==
    ASSUME NEW r \in CallState, NEW n \in Nat
    PROVE  LET s == [r EXCEPT !.mine = n] IN
           /\ s \in CallState
           /\ s.kind = r.kind /\ s.mine = n /\ s.ep = r.ep /\ s.on = r.on
           /\ s.stage = r.stage /\ s.answer = r.answer /\ s.torn = r.torn /\ s.asked = r.asked
BY DEF CallState

LEMMA StageUpdate ==
    ASSUME NEW r \in CallState, NEW stage \in Stages
    PROVE  LET s == [r EXCEPT !.stage = stage] IN
           /\ s \in CallState
           /\ s.kind = r.kind /\ s.mine = r.mine /\ s.ep = r.ep /\ s.on = r.on
           /\ s.stage = stage /\ s.answer = r.answer /\ s.torn = r.torn /\ s.asked = r.asked
BY DEF CallState

LEMMA DueUpdate ==
    ASSUME NEW r \in CallState, NEW due \in {"ok", "failed"}
    PROVE  LET s == [r EXCEPT !.due = due] IN
           /\ s \in CallState
           /\ s.kind = r.kind /\ s.mine = r.mine /\ s.ep = r.ep /\ s.on = r.on
           /\ s.stage = r.stage /\ s.answer = r.answer /\ s.torn = r.torn /\ s.asked = r.asked
BY DEF CallState

LEMMA LateUpdate ==
    ASSUME NEW r \in CallState
    PROVE  LET s == [r EXCEPT !.late = TRUE] IN
           /\ s \in CallState
           /\ s.kind = r.kind /\ s.mine = r.mine /\ s.ep = r.ep /\ s.on = r.on
           /\ s.stage = r.stage /\ s.answer = r.answer /\ s.torn = r.torn /\ s.asked = r.asked
BY DEF CallState

LEMMA CancelledUpdate ==
    ASSUME NEW r \in CallState, NEW b \in BOOLEAN
    PROVE  LET s == [r EXCEPT !.cancelled = b] IN
           /\ s \in CallState
           /\ s.kind = r.kind /\ s.mine = r.mine /\ s.ep = r.ep /\ s.on = r.on
           /\ s.stage = r.stage /\ s.answer = r.answer /\ s.torn = r.torn /\ s.asked = r.asked
BY DEF CallState

\* Aborting touches nothing but whether a completion is due.
LEMMA AbortedFacts ==
    ASSUME NEW cs \in [Calls -> CallState], NEW aborted
    PROVE  /\ Aborted(cs, aborted) \in [Calls -> CallState]
           /\ \A d \in Calls : Alike(Aborted(cs, aborted)[d], cs[d])
           /\ \A d \in Calls : Aborted(cs, aborted)[d].asked = cs[d].asked
<1>1. ASSUME NEW d \in Calls
      PROVE  /\ Aborted(cs, aborted)[d] \in CallState
             /\ Alike(Aborted(cs, aborted)[d], cs[d])
             /\ Aborted(cs, aborted)[d].asked = cs[d].asked
  BY DEF Aborted, CallState, Alike
<1>2. QED
  BY <1>1 DEF Aborted

LEMMA CompletedFacts ==
    ASSUME TypeOK, NEW c \in Calls, NEW answer \in {"no", "yes"}, NEW torn \in BOOLEAN
    PROVE  /\ Completed(c, answer, torn) \in [Calls -> CallState]
           /\ \A d \in Calls \ {c} : Completed(c, answer, torn)[d] = calls[d]
           /\ LET r == Completed(c, answer, torn)[c] IN
              /\ r.kind = calls[c].kind /\ r.mine = calls[c].mine /\ r.on = calls[c].on
              /\ r.stage = "done" /\ r.answer = answer /\ r.torn = torn /\ r.ep = 0
<1>1. /\ Ended(c, answer, torn) \in CallState
      /\ LET r == Ended(c, answer, torn) IN
         /\ r.kind = calls[c].kind /\ r.mine = calls[c].mine /\ r.on = calls[c].on
         /\ r.stage = "done" /\ r.answer = answer /\ r.torn = torn /\ r.ep = 0
  BY DEF TypeOK, Ended, NewCall, CallState, Stages
<1>2. QED
  BY <1>1 DEF TypeOK, Completed

\* CloseNativeSocket and KeepSocket.
LEMMA ClosingFacts ==
    ASSUME NEW cs \in [Calls -> CallState], CloseNativeSocket(cs) \/ KeepSocket(cs)
    PROVE  /\ CloseNativeSocket(cs) => SocketClosed
           /\ KeepSocket(cs) => SocketKept
           /\ calls' \in [Calls -> CallState]
           /\ \A d \in Calls : Alike(calls'[d], cs[d]) /\ calls'[d].asked = cs[d].asked
<1>1. CASE CloseNativeSocket(cs)
  <2>1. calls' = Aborted(cs, OnSocket)
    BY <1>1 DEF CloseNativeSocket
  <2>2. QED
    BY <2>1, AbortedFacts DEF CloseNativeSocket, SocketClosed, KeepSocket, SocketKept
<1>2. CASE KeepSocket(cs)
  <2>1. calls' = cs
    BY <1>2 DEF KeepSocket
  <2>2. QED
    BY <2>1 DEF CloseNativeSocket, SocketClosed, KeepSocket, SocketKept, Alike
<1>3. QED
  BY <1>1, <1>2
-----------------------------------------------------------------------------
\* The queue of the I/O thread: a work that does not fit is not in it.
LEMMA PostedKept ==
    ASSUME TypeOK, PostedFits, posted' = posted,
           \A w \in Work : WorkFits(w) => WorkFits(w)'
    PROVE  posted' \in Seq(Work) /\ PostedFits'
<1>1. \A i \in DOMAIN posted : posted[i] \in Work
  BY DEF TypeOK
<1>2. QED
  BY <1>1 DEF TypeOK, PostedFits

LEMMA PostedMore ==
    ASSUME TypeOK, PostedFits, NEW what \in {"close", "start", "cancel"}, NEW c \in Calls,
           Post(what, c),
           \A w \in Work : WorkFits(w) => WorkFits(w)',
           ~WorkFits([what |-> what, call |-> c]), WorkFits([what |-> what, call |-> c])'
    PROVE  posted' \in Seq(Work) /\ PostedFits'
<1> DEFINE w == [what |-> what, call |-> c]
<1>1. w \in Work /\ posted \in Seq(Work) /\ posted' = Append(posted, w)
  BY DEF TypeOK, Post, Work
<1>2. /\ \A i \in DOMAIN posted : posted[i] \in Work /\ WorkFits(posted[i])
      /\ \A i \in DOMAIN posted : posted[i] # w
  BY <1>1 DEF PostedFits
<1>3. WorkFits(w)'
  OBVIOUS
<1> HIDE DEF w
<1>4. /\ DOMAIN posted' = 1 .. Len(posted) + 1 /\ DOMAIN posted = 1 .. Len(posted)
      /\ posted'[Len(posted) + 1] = w
      /\ \A i \in DOMAIN posted : posted'[i] = posted[i]
      /\ posted' \in Seq(Work) /\ Len(posted) \in Nat
  BY <1>1
<1>5. \A i \in DOMAIN posted' : i \in DOMAIN posted \/ i = Len(posted) + 1
  BY <1>4
<1>6. (\A i \in DOMAIN posted : WorkFits(posted[i]))'
  BY <1>2, <1>3, <1>4, <1>5 DEF WorkFits
<1>7. \A i, j \in DOMAIN posted' : posted'[i] = posted'[j] => i = j
  BY <1>2, <1>4, <1>5 DEF PostedFits
<1>8. QED
  BY <1>4, <1>6, <1>7 DEF PostedFits

LEMMA PostedTaken ==
    ASSUME TypeOK, PostedFits, posted # <<>>, posted' = Tail(posted),
           \A w \in Work : w # Head(posted) /\ WorkFits(w) => WorkFits(w)'
    PROVE  /\ posted' \in Seq(Work) /\ PostedFits'
           /\ Head(posted) \in Work /\ WorkFits(Head(posted))
<1>1. posted \in Seq(Work) /\ posted # <<>>
  BY DEF TypeOK
<1>2. /\ DOMAIN posted' = 1 .. Len(posted) - 1 /\ DOMAIN posted = 1 .. Len(posted)
      /\ \A i \in DOMAIN posted' : posted'[i] = posted[i + 1]
      /\ posted' \in Seq(Work) /\ Len(posted) \in Nat \ {0}
      /\ Head(posted) = posted[1]
  BY <1>1
<1>3. \A i \in DOMAIN posted' : /\ i \in Nat /\ i + 1 \in DOMAIN posted /\ i + 1 # 1
                               /\ posted[i + 1] \in Work /\ posted[i + 1] # Head(posted)
  BY <1>1, <1>2 DEF PostedFits
<1>4. (\A i \in DOMAIN posted : WorkFits(posted[i]))'
  BY <1>2, <1>3 DEF PostedFits, WorkFits
<1>5. \A i, j \in DOMAIN posted' : posted'[i] = posted'[j] => i = j
  <2>1. SUFFICES ASSUME NEW i \in DOMAIN posted', NEW j \in DOMAIN posted',
                        posted'[i] = posted'[j]
                 PROVE  i = j
    OBVIOUS
  <2>2. i + 1 = j + 1
    BY <1>2, <1>3, <2>1 DEF PostedFits
  <2>3. QED
    BY <1>3, <2>2
<1>6. Head(posted) \in Work /\ WorkFits(Head(posted))
  BY <1>1, <1>2 DEF PostedFits
<1>7. QED
  BY <1>2, <1>4, <1>5, <1>6 DEF PostedFits
-----------------------------------------------------------------------------
LEMMA InitEstablishes == Init => Inductive
<1> SUFFICES ASSUME Init PROVE Inductive
  OBVIOUS
<1>1. /\ \A c \in Calls : calls[c] \in CallState
      /\ \A c \in Calls : /\ calls[c].kind = "disconnect" /\ calls[c].stage = "new"
                          /\ calls[c].mine = 0 /\ calls[c].ep = 0 /\ calls[c].on = 0
                          /\ ~calls[c].asked /\ ~calls[c].torn
                          /\ calls[c].answer = "none"
  BY DEF Init, NewCall, CallState, Stages, Kinds, Transfers
<1>2. TypeOK
  <2>1. calls \in [Calls -> CallState]
    BY <1>1 DEF Init
  <2>2. posted \in Seq(Work)
    BY DEF Init
  <2>3. pc \in [Calls -> {"idle"}] /\ made \in 0 .. MaxCalls
    BY CallAssumption DEF Init
  <2>4. QED
    BY <2>1, <2>2, <2>3 DEF Init, TypeOK
<1>3. /\ posted = <<>> /\ open = FALSE /\ connected = FALSE /\ storing = 0
      /\ lifecycle = 0 /\ epoch = 0 /\ sockets = 0
      /\ \A c \in Calls : pc[c] = "idle"
  BY DEF Init
<1>4. (\A c \in Calls : CallFits(c)) /\ PostedFits
  BY <1>1, <1>3 DEF CallFits, PostedFits
<1>5. LifecyclesDiffer /\ EpochTellsSocket /\ CleanStart
  BY <1>1, <1>3 DEF LifecyclesDiffer, EpochTellsSocket, CleanStart
<1>6. OpenIsOwned /\ OpenUntilFailure /\ StreamStaysWhole
  BY <1>1, <1>3 DEF OpenIsOwned, OpenUntilFailure, Connects, StreamStaysWhole
<1>7. QED
  BY <1>2, <1>4, <1>5, <1>6 DEF Inductive, SocketInv
-----------------------------------------------------------------------------
(* What the steps do to the conjuncts about the socket.                    *)

Sockets ==
    /\ LifecyclesDiffer /\ EpochTellsSocket /\ CleanStart /\ OpenIsOwned /\ OpenUntilFailure
    /\ StreamStaysWhole

\* Nothing is torn, and nothing opened.
LEMMA StreamKept ==
    ASSUME StreamStaysWhole,
           \A d \in Calls : calls'[d].torn => calls[d].torn /\ calls'[d].on = calls[d].on,
           open' => open /\ sockets' = sockets
    PROVE  StreamStaysWhole'
BY DEF StreamStaysWhole

\* Steps that move no call: the socket stays, or the last Connect, which is under way,
\* closes it, or a call takes connected_ down on its way to close it.
LEMMA NudgeKeepsSockets ==
    ASSUME Inductive,
           \A d \in Calls : Alike(calls'[d], calls[d]),
           UNCHANGED <<lifecycle, sockets, storing>>,
           \A d \in Calls : pc[d] \in {"mark", "dispatch", "wait"} /\ calls[d].stage = "new"
                              => pc'[d] \in {"mark", "dispatch", "wait"},
           \/ open' = open /\ epoch' = epoch /\ (connected' => connected)
           \/ SocketClosed /\ storing = 0
              /\ \E c \in Calls : /\ calls[c].kind = "connect" /\ calls[c].answer # "yes"
                                  /\ calls[c].mine = lifecycle
    PROVE  Sockets'
<1> USE DEF Inductive, SocketInv, Sockets, Alike
<1>1. LifecyclesDiffer'
  BY DEF LifecyclesDiffer
<1>2. CASE open' = open /\ epoch' = epoch /\ (connected' => connected)
  <2>1. EpochTellsSocket'
    BY <1>2 DEF EpochTellsSocket
  <2>2. CleanStart'
    BY <1>2 DEF CleanStart
  <2>3. OpenIsOwned'
    <3>1. storing' # 0 => storing \in Calls
      BY DEF TypeOK
    <3>2. QED
      BY <1>2, <3>1 DEF OpenIsOwned, CloseComing, OwnSocket
  <2>4. OpenUntilFailure'
    BY <1>2 DEF OpenUntilFailure, Connects
  <2>5. QED
    BY <1>1, <1>2, <2>1, <2>2, <2>3, <2>4, StreamKept
<1>3. CASE SocketClosed /\ storing = 0
           /\ \E c \in Calls : /\ calls[c].kind = "connect" /\ calls[c].answer # "yes"
                               /\ calls[c].mine = lifecycle
  <2> USE DEF SocketClosed
  <2>1. /\ epoch \in Nat
        /\ \A d \in Calls : calls[d].ep \in Nat /\ calls[d].mine \in Nat
        /\ \A d \in Calls : Connects(d) => calls[d].mine > 0
    <3>1. \A d \in Calls : calls[d].answer = "yes" => calls[d].stage = "done"
      BY DEF CallFits
    <3>2. QED
      BY <3>1, FieldTypes DEF TypeOK, CallFits, Connects
  <2>2. EpochTellsSocket' /\ CleanStart'
    <3>1. \A d \in Calls : calls'[d].ep <= epoch /\ calls'[d].on <= sockets
      BY DEF EpochTellsSocket
    <3>2. \A d \in Calls : calls'[d].ep # epoch + 1 /\ calls'[d].ep <= epoch + 1
      BY <2>1, <3>1
    <3>3. EpochTellsSocket'
      BY <1>3, <3>1, <3>2 DEF EpochTellsSocket
    <3>4. CleanStart'
      BY <1>3, <3>2 DEF CleanStart
    <3>5. QED
      BY <3>3, <3>4
  <2>3. OpenIsOwned'
    BY <1>3 DEF OpenIsOwned
  <2>4. OpenUntilFailure'
    <3>1. PICK c \in Calls : /\ calls[c].kind = "connect" /\ calls[c].answer # "yes"
                            /\ calls[c].mine = lifecycle
      BY <1>3
    <3>2. ASSUME NEW d \in Calls, Connects(d), calls[d].mine = lifecycle
          PROVE  FALSE
      <4>1. calls[d].mine > 0 /\ calls[d].mine \in Nat /\ c # d
        BY <2>1, <3>1, <3>2 DEF Connects
      <4>2. calls[d].mine = 0
        BY <3>1, <3>2, <4>1 DEF LifecyclesDiffer
      <4>3. QED
        BY <4>1, <4>2
    <3>3. QED
      BY <3>2 DEF OpenUntilFailure, Connects
  <2>5. QED
    BY <1>1, <1>3, <2>2, <2>3, <2>4, StreamKept
<1>4. QED
  BY <1>2, <1>3

\* Of the Connects and Disconnects one is the last.
LEMMA LastIsOne ==
    ASSUME Inductive, NEW c \in Calls, calls[c].mine = lifecycle, calls[c].mine > 0,
           NEW d \in Calls, calls[d].mine = lifecycle
    PROVE  c = d
<1>1. calls[c].mine \in Nat
  BY FieldTypes DEF Inductive, SocketInv
<1>2. QED
  BY <1>1 DEF Inductive, SocketInv, LifecyclesDiffer

\* A Connect has a lifecycle by the time it is posted.
LEMMA ConnectIsCounted ==
    ASSUME Inductive, NEW c \in Calls, calls[c].kind = "connect", calls[c].stage # "new"
    PROVE  calls[c].mine > 0
BY DEF Inductive, SocketInv, CallFits

\* No Connect has succeeded in the present lifecycle if it is that of a call under way.
LEMMA NoneSucceeded ==
    ASSUME Inductive, NEW c \in Calls, calls[c].mine = lifecycle, calls[c].answer # "yes"
    PROVE  \A d \in Calls : ~(Connects(d) /\ calls[d].mine = lifecycle)
<1> SUFFICES ASSUME NEW d \in Calls, Connects(d), calls[d].mine = lifecycle PROVE FALSE
  OBVIOUS
<1>1. calls[d].stage # "new" /\ calls[d].kind = "connect"
  BY DEF Inductive, SocketInv, CallFits, Connects
<1>2. c = d
  BY <1>1, LastIsOne, ConnectIsCounted
<1>3. QED
  BY <1>2 DEF Connects

\* An operation ends.  If it is the last Connect's, and the socket is its own, that is
\* closed; so is the socket of a transfer that fails.
LEMMA EndKeepsSockets ==
    ASSUME Inductive, NEW c \in Calls, calls[c].stage \notin {"new", "done"},
           \A d \in Calls \ {c} : Alike(calls'[d], calls[d]),
           calls'[c].kind = calls[c].kind, calls'[c].mine = calls[c].mine,
           calls'[c].on = calls[c].on, calls'[c].ep = 0,
           calls'[c].stage = "done", calls'[c].answer \in {"no", "yes"},
           calls[c].kind = "connect" => calls'[c].answer = "no",
           calls'[c].torn => calls[c].on # sockets \/ ~open \/ SocketClosed,
           UNCHANGED <<lifecycle, sockets, storing, pc>>, storing = 0,
           \/ SocketKept /\ ~(calls[c].kind = "connect" /\ calls[c].mine = lifecycle
                              /\ calls[c].ep = epoch)
           \/ SocketClosed /\ calls[c].kind = "connect" /\ calls[c].mine = lifecycle
           \/ /\ SocketClosed /\ calls[c].stage = "moving" /\ calls[c].kind \in Transfers
              /\ calls[c].ep = epoch /\ calls'[c].answer = "no"
    PROVE  Sockets'
<1> USE DEF Inductive, SocketInv, Sockets, Alike
<1>1. LifecyclesDiffer'
  BY DEF LifecyclesDiffer
<1>2. epoch \in Nat /\ sockets \in Nat /\ calls[c].answer = "none"
      /\ \A d \in Calls : calls[d].ep \in Nat
  BY FieldTypes DEF TypeOK, CallFits
<1>3. \A d \in Calls : Connects(d)' => Connects(d)
  BY DEF Connects, Transfers
<1>4. \A d \in Calls : calls[d].answer = "no" => d # c /\ calls'[d].answer = "no"
  BY <1>2
<1>5. CASE SocketKept /\ ~(calls[c].kind = "connect" /\ calls[c].mine = lifecycle
                          /\ calls[c].ep = epoch)
  <2> USE DEF SocketKept
  <2>1. EpochTellsSocket' /\ CleanStart'
    BY <1>2, <1>5 DEF EpochTellsSocket, CleanStart
  <2>2. CloseComing => CloseComing'
    BY DEF CloseComing
  <2>3. \A d \in Calls : OwnSocket(d) => d # c /\ OwnSocket(d)'
    BY <1>2, <1>5 DEF OwnSocket
  <2>4. OpenIsOwned'
    BY <1>5, <2>2, <2>3 DEF OpenIsOwned
  <2>5. OpenUntilFailure'
    BY <1>3, <1>4, <1>5 DEF OpenUntilFailure
  <2>6. StreamStaysWhole'
    <3>1. ASSUME NEW d \in Calls, calls'[d].torn, calls'[d].on = sockets
          PROVE  ~open'
      <4>1. CASE d = c
        BY <1>2, <1>5, <3>1, <4>1 DEF SocketClosed
      <4>2. CASE d # c
        BY <1>5, <3>1, <4>2 DEF StreamStaysWhole
      <4>3. QED
        BY <4>1, <4>2
    <3>2. QED
      BY <3>1 DEF StreamStaysWhole
  <2>7. QED
    BY <1>1, <2>1, <2>4, <2>5, <2>6
<1>6. CASE SocketClosed
  <2> USE DEF SocketClosed
  <2>1. EpochTellsSocket' /\ CleanStart'
    <3>1. \A d \in Calls : calls'[d].ep \in Nat /\ calls'[d].ep <= epoch
                         /\ calls'[d].on <= sockets
      BY <1>2 DEF EpochTellsSocket
    <3>2. \A d \in Calls : calls'[d].ep # epoch + 1 /\ calls'[d].ep <= epoch + 1
      BY <1>2, <3>1
    <3>3. QED
      BY <1>6, <3>1, <3>2 DEF EpochTellsSocket, CleanStart
  <2>2. OpenIsOwned'
    BY <1>6 DEF OpenIsOwned
  <2>3. CASE calls[c].kind = "connect" /\ calls[c].mine = lifecycle
    <3>1. \A d \in Calls : ~(Connects(d)' /\ calls'[d].mine = lifecycle)
      BY <1>2, <1>3, <2>3, NoneSucceeded
    <3>2. QED
      BY <1>1, <1>6, <2>1, <2>2, <3>1 DEF OpenUntilFailure, StreamStaysWhole
  <2>4. CASE /\ calls[c].stage = "moving" /\ calls[c].kind \in Transfers
             /\ calls[c].ep = epoch /\ calls'[c].answer = "no"
    <3>1. calls[c].on = sockets
      BY <2>4 DEF EpochTellsSocket
    <3>2. OpenUntilFailure'
      BY <1>3, <1>4, <2>4, <3>1 DEF OpenUntilFailure
    <3>3. QED
      BY <1>1, <1>6, <2>1, <2>2, <3>2 DEF StreamStaysWhole
  <2>5. QED
    BY <1>6, <2>3, <2>4 DEF SocketKept
<1>7. QED
  BY <1>5, <1>6

\* A step that takes one call from a place where it has no socket to another, and opens
\* and closes nothing.
LEMMA QuietMoveKeepsSockets ==
    ASSUME Inductive, NEW c \in Calls,
           \A d \in Calls \ {c} : Alike(calls'[d], calls[d]) /\ pc'[d] = pc[d],
           UNCHANGED <<lifecycle, sockets, storing>>, SocketKept,
           calls[c].stage \in {"new", "closed", "posted"},
           calls'[c].answer = "none", ~calls'[c].torn, calls'[c].mine \in {0, calls[c].mine},
           calls'[c].ep \in {0, epoch, calls[c].ep}, calls'[c].on \in {0, calls[c].on, sockets},
           pc[c] \in {"mark", "dispatch", "wait"} /\ calls[c].stage = "new"
              => calls[c].mine # lifecycle,
           \/ calls'[c].stage = "new"
           \/ /\ calls'[c].stage \in {"closed", "posted", "resolving"}
              /\ \/ calls'[c].mine # lifecycle \/ calls'[c].kind # "connect"
                 \/ calls[c].kind = "connect" /\ calls[c].stage # "new"
                    /\ calls'[c].mine = calls[c].mine
           \/ /\ calls'[c].stage = "moving" /\ calls'[c].ep = epoch
              /\ calls'[c].on = sockets /\ open
    PROVE  Sockets'
<1> USE DEF Inductive, SocketInv, Sockets, Alike, SocketKept
<1>1. /\ epoch \in Nat /\ sockets \in Nat /\ lifecycle \in Nat
      /\ calls[c].answer = "none" /\ calls[c].stage # "connecting"
      /\ \A d \in Calls : calls[d].ep \in Nat /\ calls[d].mine \in Nat /\ calls[d].on \in Nat
  BY FieldTypes DEF TypeOK, CallFits
<1>2. LifecyclesDiffer'
  BY <1>1 DEF LifecyclesDiffer
<1>3. EpochTellsSocket'
  BY <1>1 DEF EpochTellsSocket
<1>4. CleanStart'
  <2>1. ASSUME NEW e \in Calls, calls'[e].kind = "connect", calls'[e].mine = lifecycle,
               calls'[e].stage \in {"closed", "posted", "resolving"}
        PROVE  /\ calls[e].kind = "connect" /\ calls[e].mine = lifecycle
               /\ calls[e].stage \in {"closed", "posted", "resolving"}
    BY <2>1
  <2>2. ASSUME NEW d \in Calls, ~open, calls'[d].stage \in {"connecting", "moving"}
        PROVE  d # c
    BY <2>2
  <2>3. QED
    BY <2>1, <2>2 DEF CleanStart
<1>5. OpenIsOwned'
  <2>1. CloseComing => CloseComing'
    BY DEF CloseComing
  <2>2. \A d \in Calls : OwnSocket(d) => d # c /\ OwnSocket(d)'
    BY <1>1 DEF OwnSocket
  <2>3. storing # 0 => storing \in Calls /\ storing # c
    BY <1>1 DEF TypeOK, OpenIsOwned
  <2>4. QED
    BY <2>1, <2>2, <2>3 DEF OpenIsOwned
<1>6. OpenUntilFailure'
  <2>1. \A d \in Calls : Connects(d)' => Connects(d) /\ d # c
    BY DEF Connects
  <2>2. \A d \in Calls : calls[d].answer = "no" => d # c
    BY <1>1
  <2>3. QED
    BY <2>1, <2>2 DEF OpenUntilFailure
<1>7. StreamStaysWhole'
  BY StreamKept
<1>8. QED
  BY <1>2, <1>3, <1>4, <1>5, <1>6, <1>7

LEMMA NextLifecycleKeepsSockets ==
    ASSUME Inductive, NEW c \in Calls, NextLifecycle(c)
    PROVE  Sockets'
<1> USE DEF Inductive, SocketInv, Sockets
<1>1. /\ lifecycle \in Nat /\ calls[c].stage = "new" /\ calls[c].answer = "none"
      /\ \A d \in Calls : calls[d].mine \in Nat
  BY FieldTypes DEF TypeOK, CallFits, NextLifecycle, CallerGoes
<1>2. /\ calls'[c].mine = lifecycle + 1
      /\ \A d \in Calls \ {c} : calls'[d] = calls[d] /\ pc'[d] = pc[d]
      /\ calls'[c].kind = calls[c].kind /\ calls'[c].stage = "new"
      /\ calls'[c].answer = "none" /\ calls'[c].ep = calls[c].ep /\ calls'[c].on = calls[c].on
      /\ calls'[c].torn = calls[c].torn /\ pc'[c] = "mark"
      /\ lifecycle' = lifecycle + 1 /\ SocketKept /\ UNCHANGED <<sockets, storing>>
  BY <1>1 DEF TypeOK, CallState, NextLifecycle, CallerGoes, socketVars, SocketKept
<1>3. \A d \in Calls \ {c} : calls'[d].mine <= lifecycle /\ calls'[d].mine # lifecycle + 1
  BY <1>1, <1>2 DEF LifecyclesDiffer
<1>4. LifecyclesDiffer'
  BY <1>1, <1>2, <1>3 DEF LifecyclesDiffer
<1>5. EpochTellsSocket'
  BY <1>1, <1>2 DEF EpochTellsSocket, SocketKept
<1>6. CleanStart' /\ OpenUntilFailure'
  BY <1>2, <1>3 DEF CleanStart, OpenUntilFailure, Connects
<1>7. OpenIsOwned'
  <2>1. CloseComing'
    BY <1>2 DEF CloseComing
  <2>2. storing # 0 => storing \in Calls /\ storing # c
    BY <1>1 DEF TypeOK, OpenIsOwned
  <2>3. QED
    BY <1>2, <2>1, <2>2 DEF OpenIsOwned, SocketKept
<1>8. StreamStaysWhole'
  BY <1>2, StreamKept DEF SocketKept
<1>9. QED
  BY <1>4, <1>5, <1>6, <1>7, <1>8

\* The last Connect or Disconnect closes what there is.
LEMMA CloseKeepsSockets ==
    ASSUME Inductive, NEW c \in Calls, calls[c].mine = lifecycle, calls[c].stage = "new",
           \A d \in Calls \ {c} : Alike(calls'[d], calls[d]),
           Alike(calls'[c], [calls[c] EXCEPT !.stage = "closed"]),
           UNCHANGED <<lifecycle, sockets, storing, pc>>, storing = 0, SocketClosed
    PROVE  Sockets'
<1> USE DEF Inductive, SocketInv, Sockets, SocketClosed
<1>1. /\ calls'[c].kind = calls[c].kind /\ calls'[c].mine = calls[c].mine
      /\ calls'[c].ep = calls[c].ep /\ calls'[c].on = calls[c].on
      /\ calls'[c].stage = "closed" /\ calls'[c].answer = calls[c].answer
  BY DEF Alike, TypeOK, CallState
<1>2. /\ \A d \in Calls : /\ calls'[d].mine = calls[d].mine /\ calls'[d].ep = calls[d].ep
                         /\ calls'[d].on = calls[d].on /\ calls'[d].kind = calls[d].kind
                         /\ calls'[d].answer = calls[d].answer
      /\ \A d \in Calls : calls'[d].stage \in {"connecting", "moving"} => calls'[d].stage = calls[d].stage
  BY <1>1 DEF Alike
<1>3. epoch \in Nat /\ calls[c].answer = "none" /\ \A d \in Calls : calls[d].ep \in Nat
  BY FieldTypes DEF TypeOK, CallFits
<1>4. \A d \in Calls : calls'[d].ep <= epoch /\ calls'[d].ep # epoch + 1
                     /\ calls'[d].ep <= epoch + 1
  BY <1>2, <1>3 DEF EpochTellsSocket
<1>5. LifecyclesDiffer' /\ EpochTellsSocket' /\ CleanStart' /\ OpenIsOwned'
  BY <1>2, <1>4 DEF LifecyclesDiffer, EpochTellsSocket, CleanStart, OpenIsOwned
<1>6. \A d \in Calls : ~(Connects(d)' /\ calls'[d].mine = lifecycle')
  BY <1>2, <1>3, NoneSucceeded DEF Connects
<1>7. QED
  BY <1>5, <1>6 DEF OpenUntilFailure, StreamStaysWhole

\* A socket is opened for the last Connect, and it is the first of its epoch.
LEMMA OpenKeepsSockets ==
    ASSUME Inductive, NEW c \in Calls,
           calls[c].stage = "resolving", calls[c].mine = lifecycle, calls[c].ep = epoch,
           \A d \in Calls \ {c} : Alike(calls'[d], calls[d]),
           Alike(calls'[c], [calls[c] EXCEPT !.stage = "connecting", !.on = sockets + 1]),
           UNCHANGED <<lifecycle, connected, epoch, storing, pc>>, storing = 0,
           open' = TRUE, sockets' = sockets + 1
    PROVE  Sockets'
<1> USE DEF Inductive, SocketInv, Sockets
<1>1. /\ calls'[c].kind = calls[c].kind /\ calls'[c].mine = lifecycle /\ calls'[c].ep = epoch
      /\ calls'[c].on = sockets + 1 /\ calls'[c].stage = "connecting"
      /\ calls'[c].answer = calls[c].answer
  BY DEF Alike, TypeOK, CallState
<1>2. /\ sockets \in Nat /\ epoch \in Nat
      /\ calls[c].kind = "connect" /\ calls[c].answer = "none" /\ calls[c].mine > 0
      /\ \A d \in Calls : calls[d].on \in Nat
  BY FieldTypes, ConnectIsCounted DEF TypeOK, CallFits
<1>3. LifecyclesDiffer'
  BY <1>1 DEF LifecyclesDiffer, Alike
<1>4. EpochTellsSocket'
  <2>1. \A d \in Calls \ {c} : /\ calls'[d].on <= sockets /\ calls'[d].on # sockets + 1
                             /\ calls'[d].on <= sockets + 1 /\ calls'[d].ep <= epoch
    BY <1>2 DEF EpochTellsSocket, Alike
  <2>2. \A d \in Calls \ {c} : calls'[d].stage \in {"connecting", "moving"} => calls'[d].ep # epoch
    BY <1>2 DEF CleanStart, Alike
  <2>3. QED
    BY <1>1, <1>2, <2>1, <2>2 DEF EpochTellsSocket
<1>5. CleanStart'
  <2>1. ASSUME NEW e \in Calls, calls'[e].kind = "connect", calls'[e].mine = lifecycle',
               calls'[e].stage \in {"closed", "posted", "resolving"}
        PROVE  FALSE
    <3>1. e # c
      BY <1>1, <2>1
    <3>2. calls[e].mine = lifecycle
      BY <2>1, <3>1 DEF Alike
    <3>3. QED
      BY <1>2, <3>1, <3>2, LastIsOne
  <2>2. QED
    BY <2>1 DEF CleanStart
<1>6. OpenIsOwned'
  BY <1>1, <1>2 DEF OpenIsOwned, OwnSocket
<1>7. \A d \in Calls : ~(Connects(d)' /\ calls'[d].mine = lifecycle')
  BY <1>1, <1>2, NoneSucceeded DEF Connects, Alike
<1>8. StreamStaysWhole'
  <2>1. ~calls'[c].torn
    BY DEF CallFits, Alike, TypeOK, CallState
  <2>2. \A d \in Calls \ {c} : calls'[d].on # sockets + 1
    BY <1>2 DEF EpochTellsSocket, Alike
  <2>3. QED
    BY <2>1, <2>2 DEF StreamStaysWhole
<1>9. QED
  BY <1>3, <1>4, <1>5, <1>6, <1>7, <1>8 DEF OpenUntilFailure

\* The success of a Connect is stored while its socket is still the open one.
LEMMA StoreKeepsSockets ==
    ASSUME Inductive, StoreConnected
    PROVE  Sockets'
<1> USE DEF Inductive, SocketInv, Sockets
<1> DEFINE c == storing
<1>1. /\ c \in Calls /\ open /\ calls[c].stage = "connecting" /\ calls[c].ep = epoch
      /\ calls[c].on = sockets
  BY DEF TypeOK, StoreConnected, OpenIsOwned, EpochTellsSocket
<1>2. /\ calls[c].kind = "connect" /\ calls[c].answer = "none" /\ epoch \in Nat
      /\ sockets \in Nat
  BY <1>1 DEF CallFits, TypeOK
<1>3. /\ calls' = Completed(c, "yes", FALSE) /\ connected' = TRUE /\ storing' = 0
      /\ UNCHANGED <<lifecycle, epoch, open, sockets, pc>>
  BY DEF StoreConnected, callerVars
<1>4. /\ \A d \in Calls \ {c} : calls'[d] = calls[d]
      /\ calls'[c].kind = "connect" /\ calls'[c].mine = calls[c].mine
      /\ calls'[c].on = sockets /\ calls'[c].stage = "done" /\ calls'[c].answer = "yes"
      /\ calls'[c].ep = 0 /\ ~calls'[c].torn
  <2>1. "yes" \in {"no", "yes"} /\ FALSE \in BOOLEAN
    OBVIOUS
  <2>2. QED
    BY <1>1, <1>2, <1>3, <2>1, CompletedFacts
<1> HIDE DEF c
<1>5. /\ \A d \in Calls : /\ calls'[d].mine = calls[d].mine /\ calls'[d].on = calls[d].on
                         /\ calls'[d].kind = calls[d].kind /\ calls'[d].ep \in {0, calls[d].ep}
      /\ \A d \in Calls : calls'[d].stage \in {"connecting", "moving"}
                            => calls'[d].stage = calls[d].stage /\ calls'[d].ep = calls[d].ep
      /\ UNCHANGED <<lifecycle, epoch, open, sockets>>
  BY <1>1, <1>2, <1>3, <1>4
<1>6. LifecyclesDiffer' /\ EpochTellsSocket' /\ CleanStart'
  <2>1. LifecyclesDiffer'
    BY <1>5 DEF LifecyclesDiffer
  <2>2. EpochTellsSocket'
    BY <1>2, <1>5 DEF EpochTellsSocket
  <2>3. CleanStart'
    BY <1>1, <1>3, <1>4 DEF CleanStart
  <2>4. QED
    BY <2>1, <2>2, <2>3
<1>7. OpenIsOwned'
  <2>1. CloseComing => CloseComing'
    BY <1>1, <1>3, <1>4 DEF CloseComing
  <2>2. \A d \in Calls : OwnSocket(d) => OwnSocket(d)'
    BY <1>1, <1>2, <1>3, <1>4 DEF OwnSocket
  <2>3. QED
    BY <1>1, <1>3, <2>1, <2>2 DEF OpenIsOwned
<1>8. OpenUntilFailure'
  <2>1. \A d \in Calls : calls[d].answer = "no" => d # c
    BY <1>2
  <2>2. \A d \in Calls : Connects(d)' => d = c \/ Connects(d)
    BY <1>4 DEF Connects
  <2>3. CASE calls[c].mine = lifecycle
    <3>1. \A d \in Calls : ~(Connects(d) /\ calls[d].mine = lifecycle)
      BY <1>1, <1>2, <2>3, NoneSucceeded
    <3>2. \A d \in Calls : Connects(d)' /\ calls'[d].mine = lifecycle' => d = c
      BY <1>3, <1>4, <2>2, <3>1
    <3>3. QED
      BY <1>1, <1>3, <1>4, <3>2 DEF OpenUntilFailure
  <2>4. CASE calls[c].mine # lifecycle
    <3>1. SUFFICES ASSUME NEW d \in Calls, Connects(d), calls[d].mine = lifecycle, d # c
                   PROVE  \/ open /\ calls[d].on = sockets
                          \/ \E e \in Calls \ {c} :
                                /\ calls[e].kind \in Transfers /\ calls[e].answer = "no"
                                /\ calls[e].on = calls[d].on
      <4>1. \A d \in Calls : Connects(d)' /\ calls'[d].mine = lifecycle' =>
                                d # c /\ Connects(d) /\ calls[d].mine = lifecycle
        BY <1>5, <2>2, <2>4
      <4>2. \A e \in Calls \ {c} : calls'[e].answer = calls[e].answer
        BY <1>4
      <4>3. QED
        BY <1>5, <3>1, <4>1, <4>2 DEF OpenUntilFailure
    <3>2. QED
      BY <2>1, <3>1 DEF OpenUntilFailure
  <2>5. QED
    BY <2>3, <2>4
<1>9. StreamStaysWhole'
  BY <1>3, <1>4, StreamKept
<1>10. QED
  BY <1>6, <1>7, <1>8, <1>9

\* The whole of the claim about the socket follows.
LEMMA SocketOfLast == Inductive => SocketIsTheLastConnects
<1> SUFFICES ASSUME Inductive PROVE SocketIsTheLastConnects
  OBVIOUS
<1>1. NoSocketLeftOpen
  <2> SUFFICES ASSUME \A c \in Calls : pc[c] = "idle" \/ calls[c].kind \in Transfers, open
               PROVE  \E c \in Calls : Connects(c) /\ calls[c].mine = lifecycle
                                       /\ calls[c].on = sockets
    BY DEF NoSocketLeftOpen
  <2>1. ~CloseComing
    BY DEF Inductive, SocketInv, CallFits, CloseComing
  <2>2. PICK c \in Calls : OwnSocket(c)
    BY <2>1 DEF Inductive, SocketInv, OpenIsOwned
  <2>3. calls[c].stage # "connecting"
    BY <2>2 DEF Inductive, SocketInv, CallFits, OwnSocket, Transfers
  <2>4. QED
    BY <2>2, <2>3 DEF OwnSocket, Connects
<1>2. OnlyItsOwnClose
  <2> SUFFICES ASSUME NEW c \in Calls, Connects(c), calls[c].mine = lifecycle,
                      \A d \in Calls :
                         calls[d].kind \in Transfers /\ calls[d].on = calls[c].on =>
                            calls[d].stage = "moving" \/ calls[d].answer = "yes"
               PROVE  open
    BY DEF OnlyItsOwnClose
  <2>1. \A d \in Calls : calls[d].answer = "no" => calls[d].stage = "done"
    BY DEF Inductive, SocketInv, CallFits
  <2>2. QED
    BY <2>1 DEF Inductive, SocketInv, OpenUntilFailure
<1>3. QED
  BY <1>1, <1>2 DEF SocketIsTheLastConnects, Inductive, SocketInv, OpenIsOwned
-----------------------------------------------------------------------------
(* Every step: what it does to its call, and that the rest follows.        *)

\* A step changes one call; what was posted for others fits as before.
OthersKept(c) ==
    \A d \in Calls \ {c} : /\ Alike(calls'[d], calls[d]) /\ calls'[d].asked = calls[d].asked
                         /\ pc'[d] = pc[d]

LEMMA WorkKept ==
    ASSUME NEW c \in Calls, OthersKept(c), NEW w \in Work, w.call # c, WorkFits(w)
    PROVE  WorkFits(w)'
BY DEF OthersKept, Alike, WorkFits, Work

LEMMA Assembled ==
    ASSUME Inductive, NEW c \in Calls, OthersKept(c), made' \in {made, made + 1},
           CallFits(c)', TypeOK', PostedFits', Sockets'
    PROVE  Inductive'
<1>1. ASSUME NEW d \in Calls \ {c}
      PROVE  CallFits(d)'
  <2>1. d > made' => d > made
    BY DEF Inductive, SocketInv, TypeOK, Calls
  <2>2. CallFits(d)
    BY DEF Inductive, SocketInv
  <2>3. QED
    BY <2>1, <2>2 DEF OthersKept, Alike, CallFits
<1>2. QED
  BY <1>1 DEF Inductive, SocketInv, Sockets

LEMMA NewCallFacts ==
    ASSUME NEW kind \in Kinds, NEW timed \in BOOLEAN
    PROVE  LET r == NewCall(kind, timed) IN
           /\ r \in CallState /\ r.kind = kind /\ r.stage = "new" /\ r.mine = 0 /\ r.ep = 0
           /\ r.on = 0 /\ r.answer = "none" /\ ~r.asked /\ ~r.torn
BY DEF NewCall, CallState, Stages

LEMMA CallPreserves ==
    ASSUME Inductive, NEW c \in Calls, NEW kind \in Kinds, NEW timed \in BOOLEAN,
           Call(c, kind, timed)
    PROVE  Inductive'
<1>1. /\ TypeOK /\ PostedFits /\ CallFits(c) /\ c > made
      /\ calls[c].stage = "new" /\ pc[c] = "idle" /\ ~calls[c].asked
  BY DEF Inductive, SocketInv, TypeOK, Call, CallFits
<1>2. /\ calls' \in [Calls -> CallState] /\ pc'[c] \in {"lock", "take"}
      /\ pc'[c] = "take" => kind = "disconnect"
      /\ \A d \in Calls \ {c} : calls'[d] = calls[d] /\ pc'[d] = pc[d]
      /\ calls'[c] = NewCall(kind, timed)
  BY <1>1, NewCallFacts DEF TypeOK, Call
<1>3. OthersKept(c) /\ TypeOK'
  <2>1. OthersKept(c)
    BY <1>2 DEF OthersKept, Alike
  <2>2. pc' \in [Calls -> {"idle", "lock", "take", "mark", "dispatch", "wait", "begin",
                           "await"}]
    BY <1>1 DEF Call, TypeOK
  <2>3. QED
    BY <1>1, <1>2, <2>1, <2>2 DEF TypeOK, Call, socketVars, ioVars, Calls
<1>4. CallFits(c)'
  BY <1>1, <1>2, NewCallFacts DEF CallFits, Call, Transfers
<1>5. PostedFits'
  <2>1. \A w \in Work : WorkFits(w) => WorkFits(w)'
    BY <1>1, <1>3, WorkKept DEF WorkFits, Work
  <2>2. QED
    BY <1>1, <2>1, PostedKept DEF Call, ioVars
<1>6. Sockets'
  BY <1>1, <1>2, <1>3, NewCallFacts, QuietMoveKeepsSockets
     DEF Call, OthersKept, socketVars, ioVars, SocketKept
<1>7. QED
  BY <1>3, <1>4, <1>5, <1>6, Assembled DEF Call

\* The caller moves and its call does not.
LEMMA CallerPreserves ==
    ASSUME Inductive, NEW c \in Calls,
           Lock(c) \/ MarkDisconnected(c) \/ DispatchClose(c) \/ CloseDone(c) \/ Return(c)
    PROVE  Inductive'
<1>1. TypeOK /\ PostedFits /\ CallFits(c) /\ calls' = calls /\ Alike(calls[c], calls[c])
      /\ calls[c].kind \in Kinds /\ calls[c].asked \in BOOLEAN
  BY FieldTypes
     DEF Inductive, SocketInv, Alike, Lock, MarkDisconnected, DispatchClose, CloseDone, Return
<1>2. /\ UNCHANGED <<lifecycle, sockets, storing, made, active>>
      /\ open' = open /\ epoch' = epoch /\ connected' \in BOOLEAN /\ (connected' => connected)
      /\ \A d \in Calls \ {c} : pc'[d] = pc[d]
      /\ pc' \in [Calls -> {"idle", "lock", "take", "mark", "dispatch", "wait", "begin",
                            "await"}]
  <2>1. PICK to \in {"idle", "take", "dispatch", "wait", "begin"} :
           pc' = [pc EXCEPT ![c] = to] /\ UNCHANGED <<made, storing>>
    BY DEF Lock, MarkDisconnected, DispatchClose, CloseDone, Return, CallerGoes
  <2>2. connected' = connected \/ connected' = FALSE
    BY DEF Lock, MarkDisconnected, DispatchClose, CloseDone, Return, socketVars
  <2>3. UNCHANGED <<lifecycle, sockets, active, open, epoch>>
    BY DEF Lock, MarkDisconnected, DispatchClose, CloseDone, Return, socketVars
  <2>4. connected' \in BOOLEAN /\ (connected' => connected)
    <3>1. connected \in BOOLEAN
      BY <1>1 DEF TypeOK
    <3>2. CASE connected' = connected
      BY <3>1, <3>2
    <3>3. CASE connected' = FALSE
      BY <3>3
    <3>4. QED
      BY <2>2, <3>2, <3>3
  <2>5. /\ \A d \in Calls \ {c} : pc'[d] = pc[d]
        /\ pc' \in [Calls -> {"idle", "lock", "take", "mark", "dispatch", "wait", "begin",
                              "await"}]
    BY <1>1, <2>1 DEF TypeOK
  <2>6. QED
    BY <2>1, <2>3, <2>4, <2>5
<1>3. \/ pc[c] = "lock" /\ calls[c].kind = "connect" /\ pc'[c] = "take" /\ posted' = posted
      \/ pc[c] = "lock" /\ calls[c].kind # "connect" /\ pc'[c] \in {"begin", "idle"}
         /\ posted' = posted /\ calls[c].kind # "disconnect"
      \/ pc[c] = "mark" /\ pc'[c] = "dispatch" /\ posted' = posted
      \/ pc[c] = "dispatch" /\ pc'[c] = "wait" /\ Post("close", c)
      \/ /\ pc[c] = "wait" /\ calls[c].stage = "closed" /\ posted' = posted
         /\ \/ pc'[c] = "idle"
            \/ pc'[c] = "begin" /\ calls[c].kind # "disconnect"
      \/ pc[c] = "await" /\ pc'[c] = "idle" /\ calls[c].stage = "done" /\ posted' = posted
  BY <1>1 DEF TypeOK, Lock, MarkDisconnected, DispatchClose, CloseDone, Return, CallerGoes,
              CallFits
<1>4. OthersKept(c)
  BY <1>1, <1>2 DEF OthersKept, Alike
<1>5. CallFits(c)'
  BY <1>1, <1>2, <1>3 DEF CallFits, Kinds, Transfers
<1>6. posted' \in Seq(Work) /\ PostedFits'
  <2>1. \A w \in Work : WorkFits(w) => WorkFits(w)'
    BY <1>1, <1>3, <1>4, WorkKept DEF WorkFits, Work
  <2>2. CASE posted' = posted
    BY <1>1, <2>1, <2>2, PostedKept
  <2>3. CASE pc[c] = "dispatch" /\ pc'[c] = "wait" /\ Post("close", c)
    <3>1. calls[c].stage = "new"
      BY <1>1, <2>3 DEF CallFits
    <3>2. ~WorkFits([what |-> "close", call |-> c]) /\ WorkFits([what |-> "close", call |-> c])'
      BY <1>1, <2>3, <3>1 DEF WorkFits
    <3>3. QED
      BY <1>1, <2>1, <2>3, <3>2, PostedMore
  <2>4. QED
    BY <1>3, <2>2, <2>3
<1>7. TypeOK'
  BY <1>1, <1>2, <1>6 DEF TypeOK
<1>8. Sockets'
  <2>1. \A d \in Calls : Alike(calls'[d], calls[d])
    BY <1>1 DEF Alike
  <2>2. \A d \in Calls : pc[d] \in {"mark", "dispatch", "wait"} /\ calls[d].stage = "new"
                           => pc'[d] \in {"mark", "dispatch", "wait"}
    BY <1>2, <1>3
  <2>3. QED
    BY <1>2, <2>1, <2>2, NudgeKeepsSockets
<1>9. QED
  BY <1>2, <1>4, <1>5, <1>6, <1>7, <1>8, Assembled

LEMMA NextLifecyclePreserves ==
    ASSUME Inductive, NEW c \in Calls, NextLifecycle(c)
    PROVE  Inductive'
<1>1. TypeOK /\ PostedFits /\ CallFits(c) /\ pc[c] = "take" /\ calls[c].kind \in Kinds
      /\ calls[c].stage = "new" /\ ~calls[c].asked
  BY FieldTypes DEF Inductive, SocketInv, NextLifecycle, CallerGoes, CallFits
<1>2. /\ calls' = [calls EXCEPT ![c].mine = lifecycle + 1] /\ calls' \in [Calls -> CallState]
      /\ \A d \in Calls \ {c} : calls'[d] = calls[d] /\ pc'[d] = pc[d]
      /\ calls'[c].kind = calls[c].kind /\ calls'[c].stage = "new"
      /\ calls'[c].answer = calls[c].answer /\ calls'[c].mine = lifecycle + 1
      /\ ~calls'[c].asked /\ pc'[c] = "mark" /\ calls'[c].torn = calls[c].torn
  <2>1. calls[c] \in CallState /\ lifecycle + 1 \in Nat
    BY <1>1 DEF TypeOK
  <2>2. calls' = [calls EXCEPT ![c] = [calls[c] EXCEPT !.mine = lifecycle + 1]]
        /\ pc' = [pc EXCEPT ![c] = "mark"]
    BY DEF NextLifecycle, CallerGoes
  <2>3. calls'[c] = [calls[c] EXCEPT !.mine = lifecycle + 1]
    BY <1>1, <2>2 DEF TypeOK
  <2>4. QED
    BY <1>1, <2>1, <2>2, <2>3, MineUpdate DEF TypeOK
<1>3. OthersKept(c) /\ TypeOK' /\ made' = made /\ posted' = posted
  BY <1>1, <1>2 DEF OthersKept, Alike, TypeOK, NextLifecycle, CallerGoes, socketVars
<1>4. CallFits(c)'
  BY <1>1, <1>2, <1>3 DEF CallFits, TypeOK, Transfers
<1>5. PostedFits'
  <2>1. \A w \in Work : WorkFits(w) => WorkFits(w)'
    BY <1>1, <1>3, WorkKept DEF WorkFits, Work
  <2>2. QED
    BY <1>1, <1>3, <2>1, PostedKept
<1>6. QED
  BY <1>3, <1>4, <1>5, NextLifecycleKeepsSockets, Assembled

LEMMA BeginPreserves ==
    ASSUME Inductive, NEW c \in Calls, Begin(c)
    PROVE  Inductive'
<1>1. TypeOK /\ PostedFits /\ CallFits(c) /\ pc[c] = "begin" /\ calls[c].kind \in Kinds
      /\ calls[c].stage \in {"new", "closed"} /\ calls[c].asked \in BOOLEAN
  BY FieldTypes DEF Inductive, SocketInv, Begin, CallerGoes, CallFits
<1>2. /\ calls' \in [Calls -> CallState]
      /\ \A d \in Calls \ {c} : calls'[d] = calls[d] /\ pc'[d] = pc[d]
      /\ calls'[c].kind = calls[c].kind /\ calls'[c].stage = "posted"
      /\ calls'[c].answer = calls[c].answer /\ calls'[c].mine = calls[c].mine
      /\ calls'[c].ep = calls[c].ep /\ calls'[c].on = calls[c].on
      /\ calls'[c].asked = calls[c].asked /\ pc'[c] = "await"
      /\ calls'[c].torn = calls[c].torn
  <2>1. "posted" \in Stages /\ calls[c] \in CallState
    BY <1>1 DEF TypeOK, Stages
  <2>2. calls' = [calls EXCEPT ![c] = [calls[c] EXCEPT !.stage = "posted"]]
        /\ pc' = [pc EXCEPT ![c] = "await"]
    BY DEF Begin, CallerGoes
  <2>3. calls'[c] = [calls[c] EXCEPT !.stage = "posted"]
    BY <1>1, <2>2 DEF TypeOK
  <2>4. QED
    BY <1>1, <2>1, <2>2, <2>3, StageUpdate DEF TypeOK
<1>3. /\ OthersKept(c) /\ UNCHANGED <<lifecycle, sockets, storing, made, active>> /\ SocketKept
      /\ pc' \in [Calls -> {"idle", "lock", "take", "mark", "dispatch", "wait", "begin",
                            "await"}]
  BY <1>1, <1>2 DEF OthersKept, Alike, TypeOK, Begin, CallerGoes, socketVars, SocketKept
<1>4. CallFits(c)'
  BY <1>1, <1>2, <1>3 DEF CallFits, Kinds
<1>5. posted' \in Seq(Work) /\ PostedFits'
  <2>1. \A w \in Work : WorkFits(w) => WorkFits(w)'
    BY <1>1, <1>2, <1>3, WorkKept DEF WorkFits, Work
  <2>2. ~WorkFits([what |-> "start", call |-> c]) /\ WorkFits([what |-> "start", call |-> c])'
    BY <1>1, <1>2 DEF WorkFits
  <2>3. QED
    BY <1>1, <2>1, <2>2, PostedMore DEF Begin
<1>6. TypeOK'
  BY <1>1, <1>2, <1>3, <1>5 DEF TypeOK, SocketKept
<1>7. Sockets'
  <2>1. calls[c].kind = "connect" => calls[c].stage = "closed"
    BY <1>1 DEF CallFits
  <2>2. calls'[c].answer = "none" /\ ~calls'[c].torn
    BY <1>1, <1>2 DEF CallFits
  <2>3. QED
    BY <1>1, <1>2, <1>3, <2>1, <2>2, QuietMoveKeepsSockets DEF OthersKept
<1>8. QED
  BY <1>3, <1>4, <1>5, <1>6, <1>7, Assembled

LEMMA AskToCancelPreserves ==
    ASSUME Inductive, NEW c \in Calls, AskToCancel(c)
    PROVE  Inductive'
<1>1. TypeOK /\ PostedFits /\ CallFits(c) /\ pc[c] = "await"
      /\ calls[c].stage \notin {"new", "done"} /\ ~calls[c].asked
  BY DEF Inductive, SocketInv, AskToCancel, CallFits
<1>2. /\ calls' \in [Calls -> CallState] /\ pc' = pc
      /\ \A d \in Calls \ {c} : calls'[d] = calls[d]
      /\ Alike(calls'[c], calls[c]) /\ calls'[c].asked
  BY <1>1 DEF TypeOK, CallState, Alike, AskToCancel, CallerGoes
<1>3. /\ OthersKept(c) /\ UNCHANGED <<lifecycle, sockets, storing, made, active>> /\ SocketKept
      /\ \A d \in Calls : Alike(calls'[d], calls[d])
  BY <1>2 DEF OthersKept, Alike, AskToCancel, CallerGoes, socketVars, SocketKept
<1>4. CallFits(c)'
  BY <1>1, <1>2, <1>3 DEF CallFits, Alike
<1>5. posted' \in Seq(Work) /\ PostedFits'
  <2>1. \A w \in Work : WorkFits(w) => WorkFits(w)'
    BY <1>1, <1>2, <1>3, WorkKept DEF WorkFits, Work, Alike
  <2>2. ~WorkFits([what |-> "cancel", call |-> c]) /\ WorkFits([what |-> "cancel", call |-> c])'
    BY <1>1, <1>2 DEF WorkFits
  <2>3. QED
    BY <1>1, <2>1, <2>2, PostedMore DEF AskToCancel
<1>6. TypeOK'
  BY <1>1, <1>2, <1>3, <1>5 DEF TypeOK, SocketKept
<1>7. Sockets'
  BY <1>2, <1>3, NudgeKeepsSockets DEF SocketKept
<1>8. QED
  BY <1>3, <1>4, <1>5, <1>6, <1>7, Assembled

LEMMA SocketTyped ==
    ASSUME TypeOK, SocketKept \/ SocketClosed
    PROVE  connected' \in BOOLEAN /\ open' \in BOOLEAN /\ epoch' \in Nat
<1>1. CASE SocketKept
  BY <1>1 DEF TypeOK, SocketKept
<1>2. CASE SocketClosed
  <2>1. connected' = FALSE /\ open' = FALSE
    BY <1>2 DEF SocketClosed
  <2>2. epoch' \in Nat
    BY <1>2 DEF TypeOK, SocketClosed
  <2>3. QED
    BY <2>1, <2>2
<1>3. QED
  BY <1>1, <1>2

\* An answer, a timer or a cancellation: no call moves, and the last Connect may close.
LEMMA NudgePreserves ==
    ASSUME Inductive, calls' \in [Calls -> CallState],
           \A d \in Calls : Alike(calls'[d], calls[d]) /\ calls'[d].asked = calls[d].asked,
           UNCHANGED <<lifecycle, active, sockets, storing, made, pc>>,
           posted' = posted \/ (posted # <<>> /\ posted' = Tail(posted)),
           \/ SocketKept
           \/ SocketClosed /\ storing = 0
              /\ \E c \in Calls : /\ calls[c].kind = "connect" /\ calls[c].answer # "yes"
                                  /\ calls[c].mine = lifecycle
    PROVE  Inductive'
<1>1. TypeOK /\ PostedFits
  BY DEF Inductive, SocketInv
<1>2. posted' \in Seq(Work) /\ PostedFits'
  <2>1. \A w \in Work : WorkFits(w) => WorkFits(w)'
    BY DEF WorkFits, Work, Alike
  <2>2. QED
    BY <1>1, <2>1, PostedKept, PostedTaken
<1>3. TypeOK'
  <2>1. connected' \in BOOLEAN /\ open' \in BOOLEAN /\ epoch' \in Nat
    BY <1>1, SocketTyped
  <2>2. QED
    BY <1>1, <1>2, <2>1 DEF TypeOK
<1>4. \A d \in Calls : CallFits(d)'
  BY DEF Inductive, SocketInv, CallFits, Alike
<1>5. Sockets'
  BY <1>1, NudgeKeepsSockets DEF SocketKept
<1>6. QED
  BY <1>2, <1>3, <1>4, <1>5 DEF Inductive, SocketInv, Sockets

\* A call's operation ends.
LEMMA EndPreserves ==
    ASSUME Inductive, NEW c \in Calls, calls[c].stage \notin {"new", "closed", "done"},
           NEW answer \in {"no", "yes"}, NEW torn \in BOOLEAN,
           calls[c].kind = "connect" => answer = "no",
           calls' \in [Calls -> CallState],
           \A d \in Calls : /\ Alike(calls'[d], Completed(c, answer, torn)[d])
                           /\ calls'[d].asked = Completed(c, answer, torn)[d].asked,
           torn => calls[c].on # sockets \/ ~open \/ SocketClosed,
           UNCHANGED <<lifecycle, sockets, storing, made, pc>>, storing = 0,
           active' \in {0} \cup Calls,
           \/ posted' = posted /\ calls[c].stage # "posted"
           \/ posted # <<>> /\ posted' = Tail(posted)
              /\ Head(posted) = [what |-> "start", call |-> c],
           \/ SocketKept /\ ~(calls[c].kind = "connect" /\ calls[c].mine = lifecycle
                              /\ calls[c].ep = epoch)
           \/ SocketClosed /\ calls[c].kind = "connect" /\ calls[c].mine = lifecycle
           \/ /\ SocketClosed /\ calls[c].stage = "moving" /\ calls[c].kind \in Transfers
              /\ calls[c].ep = epoch /\ answer = "no"
    PROVE  Inductive'
<1>1. TypeOK /\ PostedFits /\ CallFits(c)
  BY DEF Inductive, SocketInv
<1>2. /\ \A d \in Calls \ {c} : Completed(c, answer, torn)[d] = calls[d]
      /\ calls'[c].kind = calls[c].kind /\ calls'[c].mine = calls[c].mine
      /\ calls'[c].on = calls[c].on /\ calls'[c].stage = "done"
      /\ calls'[c].answer = answer /\ calls'[c].ep = 0 /\ calls'[c].torn = torn
  BY <1>1, CompletedFacts DEF Alike
<1>3. OthersKept(c)
  BY <1>2 DEF OthersKept, Alike
<1>4. CallFits(c)'
  BY <1>1, <1>2 DEF CallFits
<1>5. posted' \in Seq(Work) /\ PostedFits'
  <2>1. ASSUME NEW w \in Work, WorkFits(w), w.call = c, w # [what |-> "start", call |-> c]
        PROVE  WorkFits(w)'
    <3>1. w.what # "start"
      BY <2>1 DEF Work
    <3>2. w.what # "close"
      BY <2>1 DEF WorkFits
    <3>3. QED
      BY <1>2, <2>1, <3>1, <3>2 DEF WorkFits, Work
  <2>2. CASE posted' = posted /\ calls[c].stage # "posted"
    <3>1. \A w \in Work : WorkFits(w) => WorkFits(w)'
      BY <1>3, <2>1, <2>2, WorkKept DEF WorkFits
    <3>2. QED
      BY <1>1, <2>2, <3>1, PostedKept
  <2>3. CASE posted # <<>> /\ posted' = Tail(posted)
             /\ Head(posted) = [what |-> "start", call |-> c]
    <3>1. \A w \in Work : w # Head(posted) /\ WorkFits(w) => WorkFits(w)'
      BY <1>3, <2>1, <2>3, WorkKept
    <3>2. QED
      BY <1>1, <2>3, <3>1, PostedTaken
  <2>4. QED
    BY <2>2, <2>3
<1>6. TypeOK'
  <2>1. connected' \in BOOLEAN /\ open' \in BOOLEAN /\ epoch' \in Nat
    BY <1>1, SocketTyped
  <2>2. QED
    BY <1>1, <1>5, <2>1 DEF TypeOK
<1>7. Sockets'
  BY <1>2, <1>3, EndKeepsSockets DEF OthersKept
<1>8. QED
  BY <1>3, <1>4, <1>5, <1>6, <1>7, Assembled

LEMMA AnsweredPreserves ==
    ASSUME Inductive, NEW c \in Calls, NEW due \in {"ok", "failed"}, Answered(c, due)
    PROVE  Inductive'
<1>1. TypeOK
  BY DEF Inductive, SocketInv
<1>2. calls' = [calls EXCEPT ![c] = [calls[c] EXCEPT !.due = due]]
  BY DEF Answered
<1>3. /\ calls' \in [Calls -> CallState]
      /\ \A d \in Calls : Alike(calls'[d], calls[d]) /\ calls'[d].asked = calls[d].asked
  <2>1. [calls[c] EXCEPT !.due = due] \in CallState
        /\ Alike([calls[c] EXCEPT !.due = due], calls[c])
        /\ [calls[c] EXCEPT !.due = due].asked = calls[c].asked
    BY <1>1, DueUpdate DEF TypeOK, Alike
  <2>2. QED
    BY <1>1, <1>2, <2>1 DEF TypeOK, Alike
<1>4. QED
  BY <1>1, <1>3, NudgePreserves
     DEF Answered, socketVars, ioVars, callerVars, SocketKept

\* A timer goes off, or a cancellation runs: what CancelConnect and the reads' and
\* writes' cancellations have in common.
LEMMA CancellingPreserves ==
    ASSUME Inductive, NEW c \in Calls, calls[c].stage # "done",
           NEW cs \in [Calls -> CallState],
           \A d \in Calls : Alike(cs[d], calls[d]) /\ cs[d].asked = calls[d].asked,
           \/ calls[c].kind = "connect" /\ CancelConnect(c, cs)
           \/ KeepSocket(Aborted(cs, {c} \cap Flying)),
           UNCHANGED <<lifecycle, active, sockets, storing, made, pc>>, storing = 0,
           posted' = posted \/ (posted # <<>> /\ posted' = Tail(posted))
    PROVE  Inductive'
<1> DEFINE aborted == Aborted(cs, {c} \cap Flying)
<1>1. /\ aborted \in [Calls -> CallState]
      /\ \A d \in Calls : Alike(aborted[d], cs[d]) /\ aborted[d].asked = cs[d].asked
  BY AbortedFacts
<1>2. calls[c].answer # "yes"
  BY DEF Inductive, SocketInv, CallFits
<1>3. \/ KeepSocket(aborted)
      \/ CloseNativeSocket(aborted) /\ calls[c].kind = "connect" /\ calls[c].mine = lifecycle
  BY DEF CancelConnect, IsCurrentLifecycle
<1> HIDE DEF aborted
<1>4. /\ calls' \in [Calls -> CallState]
      /\ \A d \in Calls : Alike(calls'[d], calls[d]) /\ calls'[d].asked = calls[d].asked
  BY <1>1, <1>3, ClosingFacts DEF Alike
<1>5. CASE KeepSocket(aborted)
  <2>1. SocketKept
    BY <1>1, <1>5, ClosingFacts
  <2>2. QED
    BY <1>4, <2>1, NudgePreserves
<1>6. CASE CloseNativeSocket(aborted) /\ calls[c].kind = "connect" /\ calls[c].mine = lifecycle
  <2>1. SocketClosed
    BY <1>1, <1>6, ClosingFacts
  <2>2. QED
    BY <1>2, <1>4, <1>6, <2>1, NudgePreserves
<1>7. QED
  BY <1>3, <1>5, <1>6

LEMMA TimesOutPreserves ==
    ASSUME Inductive, NEW c \in Calls, TimesOut(c)
    PROVE  Inductive'
<1> DEFINE told == [calls EXCEPT ![c].late = TRUE]
<1>1. TypeOK
  BY DEF Inductive, SocketInv
<1>2. /\ told \in [Calls -> CallState]
      /\ \A d \in Calls : Alike(told[d], calls[d]) /\ told[d].asked = calls[d].asked
  BY <1>1, LateUpdate DEF TypeOK, Alike
<1>3. calls[c].stage # "done"
  BY DEF TimesOut
<1>4. \/ calls[c].kind = "connect" /\ CancelConnect(c, told)
      \/ KeepSocket(Aborted(told, {c} \cap Flying))
  BY DEF TimesOut
<1>5. UNCHANGED <<lifecycle, active, sockets, storing, made, pc, posted>> /\ storing = 0
  BY DEF TimesOut, ioVars, callerVars
<1> HIDE DEF told
<1>6. QED
  BY <1>2, <1>3, <1>4, <1>5, CancellingPreserves

LEMMA RunCancelPreserves ==
    ASSUME Inductive, NEW c \in Calls, RunCancel(c)
    PROVE  Inductive'
<1> DEFINE flag == calls[c].cancelled \/ ~(calls[c].kind = "connect" /\ calls[c].late)
           told == [calls EXCEPT ![c].cancelled = flag]
<1>1. TypeOK
  BY DEF Inductive, SocketInv
<1>2. UNCHANGED <<lifecycle, active, sockets, storing, made, pc>> /\ storing = 0
      /\ posted # <<>> /\ posted' = Tail(posted)
  BY DEF RunCancel, Run, callerVars
<1>3. CASE calls[c].stage = "done"
  <2>1. calls' = calls /\ SocketKept
    BY <1>3 DEF RunCancel, Cancel, KeepSocket, SocketKept
  <2>2. /\ calls' \in [Calls -> CallState]
        /\ \A d \in Calls : Alike(calls'[d], calls[d]) /\ calls'[d].asked = calls[d].asked
    BY <1>1, <2>1 DEF TypeOK, Alike
  <2>3. QED
    BY <1>2, <2>1, <2>2, NudgePreserves
<1>4. CASE calls[c].stage # "done"
  <2>1. /\ told \in [Calls -> CallState]
        /\ \A d \in Calls : Alike(told[d], calls[d]) /\ told[d].asked = calls[d].asked
    <3>1. flag \in BOOLEAN
      OBVIOUS
    <3> HIDE DEF flag
    <3>2. QED
      BY <1>1, <3>1, CancelledUpdate DEF TypeOK, Alike
  <2>2. \/ calls[c].kind = "connect" /\ CancelConnect(c, told)
        \/ KeepSocket(Aborted(told, {c} \cap Flying))
    BY <1>4 DEF RunCancel, Cancel
  <2> HIDE DEF told
  <2>3. QED
    BY <1>2, <1>4, <2>1, <2>2, CancellingPreserves
<1>5. QED
  BY <1>3, <1>4

LEMMA RunCloseTakes ==
    ASSUME Inductive, NEW c \in Calls, RunClose(c)
    PROVE  /\ posted # <<>> /\ posted' = Tail(posted)
           /\ Head(posted) = [what |-> "close", call |-> c]
           /\ UNCHANGED <<lifecycle, active, sockets, storing, made, pc>> /\ storing = 0
           /\ pc[c] = "wait" /\ calls[c].stage = "new"
<1>1. /\ posted # <<>> /\ posted' = Tail(posted)
      /\ Head(posted) = [what |-> "close", call |-> c]
      /\ UNCHANGED <<lifecycle, active, sockets, storing, made, pc>> /\ storing = 0
  BY DEF RunClose, Run, callerVars
<1>2. WorkFits(Head(posted))
  <2>1. Head(posted) = posted[1] /\ 1 \in DOMAIN posted
    BY <1>1 DEF Inductive, SocketInv, TypeOK
  <2>2. QED
    BY <2>1 DEF Inductive, SocketInv, PostedFits
<1>3. QED
  BY <1>1, <1>2 DEF WorkFits

LEMMA RunClosePreserves ==
    ASSUME Inductive, NEW c \in Calls, RunClose(c)
    PROVE  Inductive'
<1> DEFINE closed == [calls EXCEPT ![c].stage = "closed"]
           aborted == Aborted(closed, {active} \cap Flying)
<1>1. TypeOK /\ PostedFits /\ CallFits(c)
  BY DEF Inductive, SocketInv
<1>2. /\ posted # <<>> /\ posted' = Tail(posted) /\ Head(posted) = [what |-> "close", call |-> c]
      /\ UNCHANGED <<lifecycle, active, sockets, storing, made, pc>> /\ storing = 0
      /\ pc[c] = "wait" /\ calls[c].stage = "new" /\ calls[c].answer = "none"
  BY <1>1, RunCloseTakes DEF CallFits
<1>3. /\ closed \in [Calls -> CallState] /\ closed[c] = [calls[c] EXCEPT !.stage = "closed"]
      /\ \A d \in Calls \ {c} : closed[d] = calls[d]
  <2>1. "closed" \in Stages
    BY DEF Stages
  <2>2. QED
    BY <1>1, <2>1, StageUpdate DEF TypeOK
<1>4. /\ aborted \in [Calls -> CallState]
      /\ \A d \in Calls : Alike(aborted[d], closed[d]) /\ aborted[d].asked = closed[d].asked
  BY <1>3, AbortedFacts
<1>5. \/ CloseNativeSocket(aborted) /\ calls[c].mine = lifecycle
      \/ KeepSocket(closed) /\ calls[c].mine # lifecycle
  BY DEF RunClose, IsCurrentLifecycle
<1> HIDE DEF closed, aborted
<1>6. /\ calls' \in [Calls -> CallState]
      /\ \A d \in Calls : Alike(calls'[d], closed[d]) /\ calls'[d].asked = closed[d].asked
      /\ \/ SocketClosed /\ calls[c].mine = lifecycle
         \/ SocketKept /\ calls[c].mine # lifecycle
  <2>1. CASE CloseNativeSocket(aborted) /\ calls[c].mine = lifecycle
    BY <1>4, <2>1, ClosingFacts DEF Alike
  <2>2. CASE KeepSocket(closed) /\ calls[c].mine # lifecycle
    BY <1>3, <2>2, ClosingFacts
  <2>3. QED
    BY <1>5, <2>1, <2>2
<1>7. /\ calls'[c].kind = calls[c].kind /\ calls'[c].mine = calls[c].mine
      /\ calls'[c].ep = calls[c].ep /\ calls'[c].on = calls[c].on
      /\ calls'[c].stage = "closed" /\ calls'[c].answer = "none" /\ ~calls'[c].torn
  <2>1. "closed" \in Stages /\ calls[c] \in CallState
    BY <1>1 DEF Stages, TypeOK
  <2>2. /\ closed[c].kind = calls[c].kind /\ closed[c].mine = calls[c].mine
        /\ closed[c].ep = calls[c].ep /\ closed[c].on = calls[c].on
        /\ closed[c].stage = "closed" /\ closed[c].answer = calls[c].answer
        /\ closed[c].torn = calls[c].torn
    BY <1>3, <2>1, StageUpdate
  <2>3. ~calls[c].torn
    BY <1>1, <1>2 DEF CallFits
  <2>4. QED
    BY <1>2, <1>6, <2>2, <2>3 DEF Alike
<1>8. OthersKept(c)
  BY <1>2, <1>3, <1>6 DEF OthersKept, Alike
<1>9. CallFits(c)'
  BY <1>1, <1>2, <1>7 DEF CallFits
<1>10. posted' \in Seq(Work) /\ PostedFits'
  <2>1. ASSUME NEW w \in Work, w # Head(posted), WorkFits(w), w.call = c
        PROVE  WorkFits(w)'
    <3>1. w.what # "close"
      BY <1>2, <2>1 DEF Work
    <3>2. w.what # "start" /\ w.what # "cancel"
      BY <1>1, <1>2, <2>1 DEF WorkFits, CallFits
    <3>3. QED
      BY <3>1, <3>2 DEF Work
  <2>2. \A w \in Work : w # Head(posted) /\ WorkFits(w) => WorkFits(w)'
    BY <1>8, <2>1, WorkKept
  <2>3. QED
    BY <1>1, <1>2, <2>2, PostedTaken
<1>11. TypeOK'
  <2>1. connected' \in BOOLEAN /\ open' \in BOOLEAN /\ epoch' \in Nat
    BY <1>1, <1>6, SocketTyped
  <2>2. QED
    BY <1>1, <1>2, <1>6, <1>10, <2>1 DEF TypeOK
<1>12. Sockets'
  <2>1. CASE SocketClosed /\ calls[c].mine = lifecycle
    BY <1>2, <1>3, <1>6, <1>8, <2>1, CloseKeepsSockets DEF OthersKept
  <2>2. CASE SocketKept /\ calls[c].mine # lifecycle
    BY <1>2, <1>7, <1>8, <2>2, QuietMoveKeepsSockets DEF OthersKept
  <2>3. QED
    BY <1>6, <2>1, <2>2
<1>13. QED
  BY <1>2, <1>8, <1>9, <1>10, <1>11, <1>12, Assembled

LEMMA StartTakes ==
    ASSUME Inductive, NEW c \in Calls, StartConnect(c) \/ StartTransfer(c)
    PROVE  /\ posted # <<>> /\ posted' = Tail(posted)
           /\ Head(posted) = [what |-> "start", call |-> c]
           /\ UNCHANGED <<lifecycle, sockets, storing, made, pc>> /\ storing = 0
           /\ calls[c].stage = "posted" /\ active' \in {0} \cup Calls
<1>1. /\ posted # <<>> /\ posted' = Tail(posted)
      /\ Head(posted) = [what |-> "start", call |-> c]
      /\ UNCHANGED <<lifecycle, sockets, storing, made, pc>> /\ storing = 0
  BY DEF StartConnect, StartTransfer, Run, callerVars
<1>2. active' \in {0} \cup Calls
  BY DEF StartConnect, StartTransfer, Inductive, SocketInv, TypeOK
<1>3. WorkFits(Head(posted))
  <2>1. Head(posted) = posted[1] /\ 1 \in DOMAIN posted
    BY <1>1 DEF Inductive, SocketInv, TypeOK
  <2>2. QED
    BY <2>1 DEF Inductive, SocketInv, PostedFits
<1>4. QED
  BY <1>1, <1>2, <1>3 DEF WorkFits

\* The operation that was posted begins.
LEMMA StartsPreserve ==
    ASSUME Inductive, NEW c \in Calls, StartConnect(c) \/ StartTransfer(c),
           KeepSocket([calls EXCEPT ![c] = calls'[c]]), calls'[c] \in CallState,
           calls'[c].kind = calls[c].kind, calls'[c].mine = calls[c].mine,
           calls'[c].ep = epoch, calls'[c].answer = calls[c].answer,
           calls'[c].asked = calls[c].asked, calls'[c].torn = calls[c].torn,
           \/ /\ calls'[c].stage = "resolving" /\ calls[c].kind = "connect"
              /\ calls'[c].on = calls[c].on
           \/ /\ calls'[c].stage = "moving" /\ calls[c].kind \in Transfers
              /\ calls'[c].on = sockets /\ open
    PROVE  Inductive'
<1>1. TypeOK /\ PostedFits /\ CallFits(c)
  BY DEF Inductive, SocketInv
<1>2. /\ posted # <<>> /\ posted' = Tail(posted)
      /\ Head(posted) = [what |-> "start", call |-> c]
      /\ UNCHANGED <<lifecycle, sockets, storing, made, pc>> /\ storing = 0
      /\ calls[c].stage = "posted" /\ active' \in {0} \cup Calls
  BY StartTakes
<1>3. /\ SocketKept /\ calls' \in [Calls -> CallState]
      /\ \A d \in Calls \ {c} : calls'[d] = calls[d]
  BY <1>1 DEF KeepSocket, SocketKept, TypeOK
<1>4. OthersKept(c)
  BY <1>2, <1>3 DEF OthersKept, Alike
<1>5. CallFits(c)'
  BY <1>1, <1>2 DEF CallFits, Transfers
<1>6. posted' \in Seq(Work) /\ PostedFits'
  <2>1. ASSUME NEW w \in Work, w # Head(posted), WorkFits(w), w.call = c
        PROVE  WorkFits(w)'
    <3>1. w.what # "start"
      BY <1>2, <2>1 DEF Work
    <3>2. w.what # "close"
      BY <1>1, <1>2, <2>1 DEF WorkFits
    <3>3. QED
      BY <1>2, <2>1, <3>1, <3>2 DEF WorkFits
  <2>2. \A w \in Work : w # Head(posted) /\ WorkFits(w) => WorkFits(w)'
    BY <1>4, <2>1, WorkKept
  <2>3. QED
    BY <1>1, <1>2, <2>2, PostedTaken
<1>7. TypeOK'
  BY <1>1, <1>2, <1>3, <1>6 DEF TypeOK, SocketKept
<1>8. Sockets'
  <2>1. calls'[c].answer = "none" /\ ~calls'[c].torn
    BY <1>1, <1>2 DEF CallFits
  <2>2. QED
    BY <1>2, <1>3, <1>4, <2>1, QuietMoveKeepsSockets DEF OthersKept
<1>9. QED
  BY <1>2, <1>4, <1>5, <1>6, <1>7, <1>8, Assembled

\* A start that finds its call overtaken or the connection gone.
LEMMA RefusalPreserves ==
    ASSUME Inductive, NEW c \in Calls, StartConnect(c) \/ StartTransfer(c),
           KeepSocket(Completed(c, "no", FALSE)),
           ~(calls[c].kind = "connect" /\ calls[c].mine = lifecycle)
    PROVE  Inductive'
<1>1. /\ posted # <<>> /\ posted' = Tail(posted)
      /\ Head(posted) = [what |-> "start", call |-> c]
      /\ UNCHANGED <<lifecycle, sockets, storing, made, pc>> /\ storing = 0
      /\ calls[c].stage = "posted" /\ active' \in {0} \cup Calls
  BY StartTakes
<1>2. "no" \in {"no", "yes"} /\ FALSE \in BOOLEAN /\ TypeOK
  BY DEF Inductive, SocketInv
<1>3. Completed(c, "no", FALSE) \in [Calls -> CallState]
  BY <1>2, CompletedFacts
<1>4. SocketKept /\ calls' = Completed(c, "no", FALSE)
  BY DEF KeepSocket, SocketKept
<1>5. \A d \in Calls : /\ Alike(calls'[d], Completed(c, "no", FALSE)[d])
                      /\ calls'[d].asked = Completed(c, "no", FALSE)[d].asked
  BY <1>4 DEF Alike
<1>6. QED
  BY <1>1, <1>2, <1>3, <1>4, <1>5, EndPreserves

LEMMA StartConnectPreserves ==
    ASSUME Inductive, NEW c \in Calls, StartConnect(c)
    PROVE  Inductive'
<1>1. TypeOK /\ epoch \in Nat /\ "resolving" \in Stages /\ calls[c] \in CallState
      /\ calls[c].kind = "connect"
  BY DEF Inductive, SocketInv, TypeOK, Stages, StartConnect
<1>2. CASE IsCurrentLifecycle(c)
  <2>1. KeepSocket([calls EXCEPT ![c] = [calls[c] EXCEPT !.stage = "resolving", !.ep = epoch]])
    BY <1>2 DEF StartConnect
  <2>2. calls'[c] = [calls[c] EXCEPT !.stage = "resolving", !.ep = epoch]
    BY <1>1, <2>1 DEF KeepSocket, TypeOK
  <2>3. KeepSocket([calls EXCEPT ![c] = calls'[c]])
    BY <2>1, <2>2
  <2>4. /\ calls'[c] \in CallState /\ calls'[c].stage = "resolving" /\ calls'[c].ep = epoch
        /\ calls'[c].kind = calls[c].kind /\ calls'[c].mine = calls[c].mine
        /\ calls'[c].on = calls[c].on /\ calls'[c].answer = calls[c].answer
        /\ calls'[c].torn = calls[c].torn /\ calls'[c].asked = calls[c].asked
    <3>1. LET r == [calls[c] EXCEPT !.stage = "resolving", !.ep = epoch] IN
          /\ r \in CallState /\ r.stage = "resolving" /\ r.ep = epoch
          /\ r.kind = calls[c].kind /\ r.mine = calls[c].mine
          /\ r.on = calls[c].on /\ r.answer = calls[c].answer
          /\ r.torn = calls[c].torn /\ r.asked = calls[c].asked
      BY <1>1 DEF CallState
    <3>2. QED
      BY <2>2, <3>1
  <2>5. QED
    BY <1>1, <2>3, <2>4, StartsPreserve
<1>3. CASE ~IsCurrentLifecycle(c)
  BY <1>3, RefusalPreserves DEF StartConnect, IsCurrentLifecycle
<1>4. QED
  BY <1>2, <1>3

LEMMA StartTransferPreserves ==
    ASSUME Inductive, NEW c \in Calls, StartTransfer(c)
    PROVE  Inductive'
<1>1. /\ TypeOK /\ epoch \in Nat /\ sockets \in Nat /\ "moving" \in Stages
      /\ calls[c] \in CallState /\ calls[c].kind \in Transfers
  BY DEF Inductive, SocketInv, TypeOK, Stages, StartTransfer
<1>2. CASE connected /\ open
  <2>1. KeepSocket([calls EXCEPT ![c] = [calls[c] EXCEPT !.stage = "moving", !.ep = epoch,
                                                         !.on = sockets]])
    BY <1>2 DEF StartTransfer
  <2>2. calls'[c] = [calls[c] EXCEPT !.stage = "moving", !.ep = epoch, !.on = sockets]
    BY <1>1, <2>1 DEF KeepSocket, TypeOK
  <2>3. KeepSocket([calls EXCEPT ![c] = calls'[c]])
    BY <2>1, <2>2
  <2>4. /\ calls'[c] \in CallState /\ calls'[c].stage = "moving" /\ calls'[c].ep = epoch
        /\ calls'[c].kind = calls[c].kind /\ calls'[c].mine = calls[c].mine
        /\ calls'[c].on = sockets /\ calls'[c].answer = calls[c].answer
        /\ calls'[c].torn = calls[c].torn /\ calls'[c].asked = calls[c].asked
    <3>1. LET r == [calls[c] EXCEPT !.stage = "moving", !.ep = epoch, !.on = sockets] IN
          /\ r \in CallState /\ r.stage = "moving" /\ r.ep = epoch
          /\ r.kind = calls[c].kind /\ r.mine = calls[c].mine
          /\ r.on = sockets /\ r.answer = calls[c].answer
          /\ r.torn = calls[c].torn /\ r.asked = calls[c].asked
      BY <1>1 DEF CallState
    <3>2. QED
      BY <2>2, <3>1
  <2>5. QED
    BY <1>1, <1>2, <2>3, <2>4, StartsPreserve
<1>3. CASE ~(connected /\ open)
  <2>1. KeepSocket(Completed(c, "no", FALSE))
    BY <1>3 DEF StartTransfer
  <2>2. QED
    BY <1>1, <2>1, RefusalPreserves DEF Transfers
<1>4. QED
  BY <1>2, <1>3

\* What the handlers leave alone.
LEMMA HandlerFacts ==
    ASSUME Inductive, NEW c \in Calls, NEW stage \in {"resolving", "connecting", "moving"},
           Handler(c, stage)
    PROVE  /\ TypeOK /\ CallFits(c) /\ calls[c].stage = stage /\ storing = 0
           /\ UNCHANGED <<lifecycle, posted, made, pc>>
           /\ calls[c].answer = "none" /\ pc[c] = "await"
           /\ stage \in {"resolving", "connecting"} => calls[c].kind = "connect"
           /\ "no" \in {"no", "yes"} /\ "yes" \in {"no", "yes"}
           /\ FALSE \in BOOLEAN /\ TRUE \in BOOLEAN
BY DEF Inductive, SocketInv, Handler, callerVars, CallFits

\* CloseNativeSocket or KeepSocket, at the end of an operation.
LEMMA EndingPreserves ==
    ASSUME Inductive, NEW c \in Calls, NEW stage \in {"resolving", "connecting", "moving"},
           Handler(c, stage), NEW answer \in {"no", "yes"}, NEW torn \in BOOLEAN,
           calls[c].kind = "connect" => answer = "no",
           torn => \/ calls[c].on # sockets \/ ~open
                   \/ CloseNativeSocket(Completed(c, answer, torn)),
           UNCHANGED <<sockets, storing>>, active' \in {0} \cup Calls,
           \/ /\ KeepSocket(Completed(c, answer, torn))
              /\ ~(calls[c].kind = "connect" /\ calls[c].mine = lifecycle /\ calls[c].ep = epoch)
           \/ /\ CloseNativeSocket(Completed(c, answer, torn))
              /\ \/ calls[c].kind = "connect" /\ calls[c].mine = lifecycle
                 \/ /\ calls[c].stage = "moving" /\ calls[c].kind \in Transfers
                    /\ calls[c].ep = epoch /\ answer = "no"
    PROVE  Inductive'
<1> DEFINE ended == Completed(c, answer, torn)
<1>1. TypeOK /\ ended \in [Calls -> CallState]
  BY CompletedFacts DEF Inductive, SocketInv
<1>2. /\ calls[c].stage \notin {"new", "closed", "posted", "done"} /\ storing = 0
      /\ UNCHANGED <<lifecycle, posted, made, pc>>
  BY HandlerFacts
<1>3. CASE KeepSocket(ended)
  <2>1. SocketKept /\ calls' \in [Calls -> CallState]
        /\ \A d \in Calls : Alike(calls'[d], ended[d]) /\ calls'[d].asked = ended[d].asked
    BY <1>1, <1>3, ClosingFacts
  <2>2. ~(SocketClosed)
    BY <1>1, <2>1 DEF SocketKept, SocketClosed, TypeOK
  <2>3. ~CloseNativeSocket(ended)
    BY <2>2 DEF CloseNativeSocket, SocketClosed
  <2>4. QED
    BY <1>2, <2>1, <2>3, EndPreserves
<1>4. CASE CloseNativeSocket(ended)
  <2>1. SocketClosed /\ calls' \in [Calls -> CallState]
        /\ \A d \in Calls : Alike(calls'[d], ended[d]) /\ calls'[d].asked = ended[d].asked
    BY <1>1, <1>4, ClosingFacts
  <2>2. ~KeepSocket(ended)
    BY <1>1, <2>1 DEF KeepSocket, SocketClosed, TypeOK
  <2>3. QED
    BY <1>2, <2>1, <2>2, EndPreserves
<1>5. QED
  BY <1>3, <1>4

LEMMA WriteEndsPreserves ==
    ASSUME Inductive, NEW c \in Calls, WriteEnds(c)
    PROVE  Inductive'
<1>1. Handler(c, "moving") /\ calls[c].kind = "write"
  BY DEF WriteEnds
<1>2. /\ TypeOK /\ calls[c].stage = "moving" /\ "no" \in {"no", "yes"} /\ "yes" \in {"no", "yes"}
      /\ FALSE \in BOOLEAN /\ TRUE \in BOOLEAN /\ calls[c].kind \in Transfers
  BY <1>1, HandlerFacts DEF Transfers
<1>3. UNCHANGED <<sockets, storing, active>> /\ active' \in {0} \cup Calls
  BY <1>2 DEF WriteEnds, TypeOK
<1>4. CASE calls[c].due = "ok"
  BY <1>1, <1>2, <1>3, <1>4, EndingPreserves DEF WriteEnds
<1>5. CASE calls[c].due # "ok" /\ calls[c].ep = epoch
  BY <1>1, <1>2, <1>3, <1>5, EndingPreserves DEF WriteEnds, CloseForOperation
<1>6. CASE calls[c].due # "ok" /\ calls[c].ep # epoch
  <2>1. calls[c].on # sockets \/ ~open
    BY <1>2, <1>6 DEF Inductive, SocketInv, EpochTellsSocket
  <2>2. QED
    BY <1>1, <1>2, <1>3, <1>6, <2>1, EndingPreserves DEF WriteEnds, CloseForOperation
<1>7. QED
  BY <1>4, <1>5, <1>6

\* A read that takes bytes its caller never sees has its socket closed, and no read whose
\* bytes are returned has.
LEMMA ReadEndsPreserves ==
    ASSUME Inductive, NEW c \in Calls, NEW some \in BOOLEAN, ReadEnds(c, some)
    PROVE  Inductive'
<1> DEFINE answer == IF some /\ Returned(c) THEN "yes" ELSE "no"
           torn == some /\ ~Returned(c)
<1>1. Handler(c, "moving") /\ calls[c].kind \in {"some", "exact"}
  BY DEF ReadEnds
<1>2. /\ TypeOK /\ calls[c].stage = "moving" /\ calls[c].kind \in Transfers
      /\ calls[c].kind # "connect"
  BY <1>1, HandlerFacts DEF Transfers
<1>3. UNCHANGED <<sockets, storing, active>> /\ active' \in {0} \cup Calls
  BY <1>2 DEF ReadEnds, TypeOK
<1>4. /\ calls[c].cancelled \in BOOLEAN /\ calls[c].late \in BOOLEAN
      /\ calls[c].due \in {"no", "ok", "failed"}
  BY <1>2 DEF TypeOK, CallState
<1>5. Returned(c) \in BOOLEAN /\ answer \in {"no", "yes"} /\ torn \in BOOLEAN
  BY DEF Returned
<1>6. torn => Fatal(c, some)
  BY <1>1, <1>4 DEF Fatal, Returned
<1>7. Fatal(c, some) => answer = "no"
  BY <1>1, <1>4 DEF Fatal, Returned
<1>8. IF Fatal(c, some) THEN CloseForOperation(c, Completed(c, answer, torn))
                        ELSE KeepSocket(Completed(c, answer, torn))
  BY DEF ReadEnds
<1> HIDE DEF answer, torn
<1>9. CASE ~Fatal(c, some)
  BY <1>1, <1>2, <1>3, <1>5, <1>6, <1>8, <1>9, EndingPreserves
<1>10. CASE Fatal(c, some) /\ calls[c].ep = epoch
  BY <1>1, <1>2, <1>3, <1>5, <1>7, <1>8, <1>10, EndingPreserves DEF CloseForOperation
<1>11. CASE Fatal(c, some) /\ calls[c].ep # epoch
  <2>1. calls[c].on # sockets \/ ~open
    BY <1>2, <1>11 DEF Inductive, SocketInv, EpochTellsSocket
  <2>2. QED
    BY <1>1, <1>2, <1>3, <1>5, <1>8, <1>11, <2>1, EndingPreserves DEF CloseForOperation
<1>12. QED
  BY <1>9, <1>10, <1>11

LEMMA ConnectFailsPreserves ==
    ASSUME Inductive, NEW c \in Calls, NEW stage \in {"resolving", "connecting"},
           Handler(c, stage), ConnectFails(c)
    PROVE  Inductive'
<1>1. /\ TypeOK /\ calls[c].stage = stage /\ "no" \in {"no", "yes"} /\ FALSE \in BOOLEAN
      /\ calls[c].kind = "connect"
  BY HandlerFacts
<1>2. UNCHANGED <<sockets, storing>> /\ active' \in {0} \cup Calls
  BY <1>1 DEF ConnectFails, TypeOK
<1>3. CASE calls[c].ep = epoch /\ IsCurrentLifecycle(c)
  BY <1>1, <1>2, <1>3, EndingPreserves DEF ConnectFails, IsCurrentLifecycle
<1>4. CASE ~(calls[c].ep = epoch /\ IsCurrentLifecycle(c))
  BY <1>1, <1>2, <1>4, EndingPreserves DEF ConnectFails, IsCurrentLifecycle
<1>5. QED
  BY <1>3, <1>4

LEMMA ResolvedPreserves ==
    ASSUME Inductive, NEW c \in Calls, Resolved(c)
    PROVE  Inductive'
<1>1. CASE ~StillWanted(c)
  BY <1>1, ConnectFailsPreserves DEF Resolved
<1>2. CASE StillWanted(c)
  <2> DEFINE r == [calls[c] EXCEPT !.stage = "connecting", !.due = "no", !.on = sockets + 1]
  <2>1. /\ TypeOK /\ PostedFits /\ CallFits(c) /\ calls[c].stage = "resolving" /\ storing = 0
        /\ UNCHANGED <<lifecycle, posted, made, pc>> /\ pc[c] = "await"
        /\ calls[c].answer = "none" /\ calls[c].kind = "connect"
        /\ calls[c] \in CallState /\ sockets \in Nat /\ sockets + 1 \in Nat
    BY HandlerFacts DEF Resolved, Inductive, SocketInv, TypeOK
  <2>2. /\ calls' = [calls EXCEPT ![c] = r] /\ open' = TRUE /\ sockets' = sockets + 1
        /\ UNCHANGED <<connected, epoch, active, storing>>
        /\ calls[c].mine = lifecycle /\ calls[c].ep = epoch
    BY <1>2 DEF Resolved, StillWanted, IsCurrentLifecycle
  <2>3. /\ r \in CallState /\ r.stage = "connecting" /\ r.ep = calls[c].ep
        /\ r.kind = calls[c].kind /\ r.mine = calls[c].mine
        /\ r.on = sockets + 1 /\ r.answer = calls[c].answer
        /\ r.torn = calls[c].torn /\ r.asked = calls[c].asked
        /\ Alike(r, [calls[c] EXCEPT !.stage = "connecting", !.on = sockets + 1])
    BY <2>1 DEF CallState, Stages, Alike
  <2> HIDE DEF r
  <2>4. /\ calls' \in [Calls -> CallState] /\ calls'[c] = r
        /\ \A d \in Calls \ {c} : calls'[d] = calls[d]
    BY <2>1, <2>2, <2>3 DEF TypeOK
  <2>5. OthersKept(c)
    BY <2>1, <2>4 DEF OthersKept, Alike
  <2>6. CallFits(c)'
    BY <2>1, <2>3, <2>4 DEF CallFits
  <2>7. PostedFits'
    <3>1. \A w \in Work : WorkFits(w) => WorkFits(w)'
      <4>1. ASSUME NEW w \in Work, WorkFits(w), w.call = c
            PROVE  WorkFits(w)'
        BY <2>1, <2>3, <2>4, <4>1 DEF WorkFits
      <4>2. QED
        BY <2>5, <4>1, WorkKept
    <3>2. QED
      BY <2>1, <3>1, PostedKept
  <2>8. TypeOK'
    BY <2>1, <2>2, <2>4 DEF TypeOK
  <2>9. Sockets'
    BY <2>1, <2>2, <2>3, <2>4, <2>5, OpenKeepsSockets DEF OthersKept
  <2>10. QED
    BY <2>1, <2>5, <2>6, <2>7, <2>8, <2>9, Assembled
<1>3. QED
  BY <1>1, <1>2

LEMMA ConnectEndsPreserves ==
    ASSUME Inductive, NEW c \in Calls, ConnectEnds(c)
    PROVE  Inductive'
<1>1. CASE StillWanted(c) /\ ~calls[c].late /\ ~calls[c].cancelled /\ open
  <2>1. /\ storing' = c /\ calls[c].stage = "connecting" /\ calls[c].ep = epoch /\ open
        /\ UNCHANGED <<lifecycle, connected, epoch, open, active, sockets, calls, posted, made, pc>>
    BY <1>1 DEF ConnectEnds, Handler, StillWanted, socketVars, callerVars
  <2>2. TypeOK'
    BY <2>1 DEF Inductive, SocketInv, TypeOK
  <2>3. OpenIsOwned'
    BY <2>1 DEF Inductive, SocketInv, OpenIsOwned, CloseComing, OwnSocket
  <2>4. (\A d \in Calls : CallFits(d)') /\ PostedFits'
    BY <2>1 DEF Inductive, SocketInv, CallFits, PostedFits, WorkFits
  <2>5. LifecyclesDiffer' /\ EpochTellsSocket' /\ CleanStart' /\ OpenUntilFailure'
        /\ StreamStaysWhole'
    BY <2>1 DEF Inductive, SocketInv, LifecyclesDiffer, EpochTellsSocket, CleanStart,
                OpenUntilFailure, Connects, StreamStaysWhole
  <2>6. QED
    BY <2>2, <2>3, <2>4, <2>5 DEF Inductive, SocketInv
<1>2. CASE ~(StillWanted(c) /\ ~calls[c].late /\ ~calls[c].cancelled /\ open)
  BY <1>2, ConnectFailsPreserves DEF ConnectEnds
<1>3. QED
  BY <1>1, <1>2

LEMMA StorePreserves ==
    ASSUME Inductive, StoreConnected
    PROVE  Inductive'
<1>0. PICK c \in Calls : c = storing
  BY DEF StoreConnected, Inductive, SocketInv, TypeOK
<1>1. /\ TypeOK /\ PostedFits /\ c \in Calls /\ CallFits(c) /\ calls[c].stage = "connecting"
      /\ calls[c].kind = "connect" /\ calls[c].answer = "none"
      /\ "yes" \in {"no", "yes"} /\ FALSE \in BOOLEAN
  BY <1>0 DEF Inductive, SocketInv, TypeOK, StoreConnected, OpenIsOwned, CallFits
<1>2. /\ calls' = Completed(c, "yes", FALSE) /\ connected' = TRUE /\ storing' = 0
      /\ active' \in {0} \cup Calls
      /\ UNCHANGED <<lifecycle, epoch, open, sockets, posted, made, pc>>
  BY <1>0, <1>1 DEF StoreConnected, callerVars, TypeOK
<1>3. /\ calls' \in [Calls -> CallState]
      /\ \A d \in Calls \ {c} : calls'[d] = calls[d]
      /\ calls'[c].kind = "connect" /\ calls'[c].mine = calls[c].mine
      /\ calls'[c].stage = "done" /\ calls'[c].answer = "yes"
  BY <1>1, <1>2, CompletedFacts
<1>4. OthersKept(c)
  BY <1>2, <1>3 DEF OthersKept, Alike
<1>5. CallFits(c)'
  BY <1>1, <1>2, <1>3 DEF CallFits
<1>6. PostedFits'
  <2>1. ASSUME NEW w \in Work, WorkFits(w), w.call = c
        PROVE  WorkFits(w)'
    BY <1>1, <1>3, <2>1 DEF WorkFits
  <2>2. \A w \in Work : WorkFits(w) => WorkFits(w)'
    BY <1>1, <1>4, <2>1, WorkKept
  <2>3. QED
    BY <1>1, <1>2, <2>2, PostedKept
<1>7. TypeOK'
  BY <1>1, <1>2, <1>3 DEF TypeOK
<1>8. QED
  BY <1>1, <1>2, <1>4, <1>5, <1>6, <1>7, StoreKeepsSockets, Assembled
-----------------------------------------------------------------------------
LEMMA StepPreserves == Inductive /\ [Next]_vars => Inductive'
<1> SUFFICES ASSUME Inductive, [Next]_vars
             PROVE  Inductive'
  OBVIOUS
<1>1. CASE UNCHANGED vars
  <2>1. UNCHANGED <<lifecycle, connected, epoch, open, active, sockets, posted, storing, calls,
                    made, pc>>
    BY <1>1 DEF vars, socketVars, ioVars, callerVars
  <2>2. calls' \in [Calls -> CallState] /\ SocketKept
        /\ \A d \in Calls : Alike(calls'[d], calls[d]) /\ calls'[d].asked = calls[d].asked
    BY <2>1 DEF Inductive, SocketInv, TypeOK, Alike, SocketKept
  <2>3. QED
    BY <2>1, <2>2, NudgePreserves
<1>2. ASSUME NEW c \in Calls, CallerStep(c)
      PROVE  Inductive'
  BY <1>2, CallerPreserves, NextLifecyclePreserves, BeginPreserves DEF CallerStep
<1>3. CASE IoStep
  BY <1>3, RunClosePreserves, StartConnectPreserves, StartTransferPreserves,
     RunCancelPreserves, ResolvedPreserves, ConnectEndsPreserves, WriteEndsPreserves,
     ReadEndsPreserves, StorePreserves DEF IoStep
<1>4. QED
  BY <1>1, <1>2, <1>3, CallPreserves, AskToCancelPreserves, TimesOutPreserves,
     AnsweredPreserves DEF Next, Rest

(***************************************************************************)
(* Whoever connects, disconnects, cancels, times out or fails, and in      *)
(* whatever order the I/O thread gets to it, the socket is that of the     *)
(* last Connect: none is left open behind a later call's back, and none    *)
(* is closed by what is left of an earlier one.  (TcpClient::Connect,      *)
(* Disconnect, CloseForOperation)                                          *)
(***************************************************************************)
THEOREM Invariance == Spec => []IInv
<1>1. Inductive => IInv
  BY SocketOfLast DEF Inductive, IInv
<1>2. QED
  BY <1>1, InitEstablishes, StepPreserves, PTL DEF Spec

(***************************************************************************)
(* No read or write that was cut short leaves a connection open on which   *)
(* the next one would start in the middle of a packet.                     *)
(* (TcpClient::Read, Write)                                                *)
(***************************************************************************)
THEOREM StreamStaysWholeHolds == Spec => []StreamStaysWhole
<1>1. Inductive => StreamStaysWhole
  BY DEF Inductive
<1>2. QED
  BY <1>1, InitEstablishes, StepPreserves, PTL DEF Spec
=============================================================================
