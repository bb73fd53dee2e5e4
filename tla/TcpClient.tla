------------------------------ MODULE TcpClient ------------------------------
(***************************************************************************)
(* The client's socket (net/transport/tcp_client).  Callers on any thread  *)
(* connect, write, read and disconnect; each call hands its work to the    *)
(* client's own I/O thread and waits.  The I/O thread runs what is posted  *)
(* in order and, in any order, the completions of what is in flight.  Two  *)
(* counters keep the past out: lifecycle_, taken by every Connect and      *)
(* Disconnect, and socket_epoch_, raised whenever the socket is closed.    *)
(*                                                                         *)
(* A call is a number, and stands for the thread that is in it: threads    *)
(* keep nothing from one call to the next.  `calls' holds its              *)
(* OperationState, from before it is posted until after it is completed.   *)
(* Data is whether there was any.                                          *)
(* The resolver, the network, the peer and the clock may answer, fail or   *)
(* keep silent.  A call that finds the client not connected returns at     *)
(* once and is left out; so are hosts and the destructor, a Disconnect     *)
(* after which nobody calls.                                               *)
(***************************************************************************)
EXTENDS Naturals, Sequences

CONSTANT MaxCalls   \* bound: calls made

ASSUME CallAssumption == MaxCalls \in Nat

VARIABLES
    lifecycle,  \* lifecycle_
    connected,  \* connected_
    epoch,      \* socket_epoch_
    open,       \* socket_.is_open()
    active,     \* active_connect_, a call or 0
    posted,     \* what the callers have posted to io_context_, in order
    storing,    \* the Connect whose success the I/O thread is about to store, or 0
    calls,      \* call -> its OperationState
    made,       \* how many calls have been made
    pc,         \* call -> where its caller is
    sockets     \* history: sockets opened

socketVars == <<connected, epoch, open, active, sockets>>
ioVars == <<posted, storing>>
callerVars == <<made, pc>>
vars == <<lifecycle, socketVars, ioVars, calls, callerVars>>
-----------------------------------------------------------------------------
Calls == 1 .. MaxCalls
Transfers == {"some", "exact", "write"}  \* ReadSome, ReadExact, Write
Kinds == Transfers \cup {"connect", "disconnect"}

\* timed: has_deadline; mine, ep: the lifecycle and epoch it belongs to; stage: how far it
\* is; due: its completion handler is queued; asked: cancellation_posted; cancelled, late:
\* cancelled_by_caller, timed_out; answer: its result; torn, on: history, whether data
\* was moved that the result does not tell of, and on which socket.
NewCall(kind, timed) ==
    [kind |-> kind, timed |-> timed, mine |-> 0, ep |-> 0, stage |-> "new",
     due |-> "no", asked |-> FALSE, cancelled |-> FALSE, late |-> FALSE,
     answer |-> "none", torn |-> FALSE, on |-> 0]

Init ==
    /\ lifecycle = 0 /\ connected = FALSE /\ epoch = 0 /\ open = FALSE
    /\ active = 0 /\ posted = <<>> /\ storing = 0
    /\ calls = [c \in Calls |-> NewCall("disconnect", TRUE)]
    /\ made = 0 /\ sockets = 0
    /\ pc = [c \in Calls |-> "idle"]

IsCurrentLifecycle(c) == calls[c].mine = lifecycle

\* Operations of the I/O services, and those of them that use the socket.
Flying == {c \in Calls : calls[c].due = "no" /\ calls[c].stage \in
                            {"resolving", "connecting", "moving"}}
OnSocket == {c \in Flying : calls[c].stage # "resolving"}

\* cancellation_signal::emit, resolver::cancel, socket::close: the handlers of the
\* operations in flight become due, with an error.
Aborted(cs, aborted) ==
    [c \in Calls |-> IF c \in aborted THEN [cs[c] EXCEPT !.due = "failed"] ELSE cs[c]]

CloseNativeSocket(cs) ==
    /\ connected' = FALSE
    /\ epoch' = epoch + 1
    /\ open' = FALSE
    /\ calls' = Aborted(cs, OnSocket)

KeepSocket(cs) == UNCHANGED <<connected, epoch, open>> /\ calls' = cs

\* ClaimCompletion and set_value; what nothing will look at again is forgotten.
Ended(c, answer, torn) ==
    [NewCall(calls[c].kind, TRUE) EXCEPT !.stage = "done", !.answer = answer,
        !.torn = torn, !.mine = calls[c].mine, !.on = calls[c].on]
Claimed(c, answer, torn) ==  \* slip: set_value is forgotten
    [calls EXCEPT ![c] = Ended(c, "none", torn)]
Completed(c, answer, torn) == [calls EXCEPT ![c] = Ended(c, answer, torn)]
-----------------------------------------------------------------------------
(* The callers.                                                            *)

CallerGoes(c, from, to) ==
    /\ pc[c] = from
    /\ pc' = [pc EXCEPT ![c] = to]
    /\ UNCHANGED <<made, storing>>

Call(c, kind, timed) ==
    /\ c = made + 1
    /\ kind \in Transfers => connected
    /\ kind \notin {"some", "exact"} => timed
    /\ made' = c
    /\ calls' = [calls EXCEPT ![c] = NewCall(kind, timed)]
    /\ pc' = [pc EXCEPT ![c] = IF kind = "disconnect" THEN "take" ELSE "lock"]
    /\ UNCHANGED <<lifecycle, socketVars, ioVars>>

\* connect_call_mutex_, read_call_mutex_ and write_call_mutex_, each held to the end.
Mutex(kind) == IF kind \in {"some", "exact"} THEN "read" ELSE kind
Locked(mutex) ==
    \E d \in Calls : pc[d] \notin {"idle", "lock"} /\ Mutex(calls[d].kind) = mutex

Lock(c) ==
    /\ pc[c] = "lock"
    /\ ~Locked(Mutex(calls[c].kind))
    /\ \/ calls[c].kind = "connect" /\ CallerGoes(c, "lock", "take")
       \/ calls[c].kind # "connect" /\ connected /\ CallerGoes(c, "lock", "begin")
       \/ calls[c].kind # "connect" /\ ~connected /\ CallerGoes(c, "lock", "idle")
    /\ UNCHANGED <<lifecycle, socketVars, posted, calls>>

NextLifecycle(c) ==
    /\ CallerGoes(c, "take", "mark")
    /\ lifecycle' = lifecycle + 1
    /\ calls' = [calls EXCEPT ![c].mine = lifecycle + 1]
    /\ UNCHANGED <<socketVars, posted>>

MarkDisconnected(c) ==
    /\ CallerGoes(c, "mark", "dispatch")
    /\ connected' = FALSE
    /\ UNCHANGED <<lifecycle, epoch, open, active, sockets, posted, calls>>

Post(what, c) == posted' = Append(posted, [what |-> what, call |-> c])

DispatchClose(c) ==
    /\ CallerGoes(c, "dispatch", "wait")
    /\ Post("close", c)
    /\ UNCHANGED <<lifecycle, socketVars, calls>>

\* The end of DispatchAndWait.
CloseDone(c) ==
    /\ pc[c] = "wait" /\ calls[c].stage = "closed"
    /\ CallerGoes(c, "wait", IF calls[c].kind = "disconnect" \/ ~IsCurrentLifecycle(c)
                               THEN "idle" ELSE "begin")
    /\ UNCHANGED <<lifecycle, socketVars, posted, calls>>

Begin(c) ==
    /\ CallerGoes(c, "begin", "await")
    /\ Post("start", c)
    /\ calls' = [calls EXCEPT ![c].stage = "posted"]
    /\ UNCHANGED <<lifecycle, socketVars>>

\* Await: should_cancel() has become true.
AskToCancel(c) ==
    /\ pc[c] = "await" /\ ~calls[c].asked /\ calls[c].stage # "done"
    /\ CallerGoes(c, "await", "await")
    /\ Post("cancel", c)
    /\ calls' = [calls EXCEPT ![c].asked = TRUE]
    /\ UNCHANGED <<lifecycle, socketVars>>

Return(c) ==
    /\ pc[c] = "await" /\ calls[c].answer # "none"
    /\ CallerGoes(c, "await", "idle")
    /\ UNCHANGED <<lifecycle, socketVars, posted, calls>>

CallerStep(c) ==
    \/ Lock(c) \/ NextLifecycle(c) \/ MarkDisconnected(c) \/ DispatchClose(c)
    \/ CloseDone(c) \/ Begin(c) \/ Return(c)
-----------------------------------------------------------------------------
(* The I/O thread: what was posted.                                        *)

Run(what, c) ==
    /\ storing = 0
    /\ posted # <<>> /\ Head(posted) = [what |-> what, call |-> c]
    /\ posted' = Tail(posted)
    /\ UNCHANGED <<lifecycle, callerVars>>

\* The lambda of Connect and Disconnect, with CancelActiveConnect.
RunClose(c) ==
    /\ Run("close", c)
    /\ LET closed == [calls EXCEPT ![c].stage = "closed"] IN
       IF IsCurrentLifecycle(c)
         THEN CloseNativeSocket(Aborted(closed, {active} \cap Flying))
         ELSE KeepSocket(closed)
    /\ UNCHANGED <<active, sockets, storing>>

StartConnect(c) ==
    /\ Run("start", c)
    /\ calls[c].kind = "connect"
    /\ IF IsCurrentLifecycle(c)
         THEN /\ KeepSocket([calls EXCEPT ![c].stage = "resolving", ![c].ep = epoch])
              /\ active' = c
         ELSE KeepSocket(Completed(c, "no", FALSE)) /\ UNCHANGED active
    /\ UNCHANGED <<sockets, storing>>

\* StartRead and StartWrite.
StartTransfer(c) ==
    /\ Run("start", c)
    /\ calls[c].kind \in Transfers
    /\ KeepSocket(IF connected /\ open
                    THEN [calls EXCEPT ![c].stage = "moving", ![c].ep = epoch,
                                       ![c].on = sockets]
                    ELSE Completed(c, "no", FALSE))
    /\ UNCHANGED <<active, sockets, storing>>

\* CancelConnect, after its test that the call is not completed.
CancelConnect(c, cs) ==
    IF IsCurrentLifecycle(c) /\ calls[c].ep = epoch
      THEN CloseNativeSocket(Aborted(cs, {c} \cap Flying))
      ELSE KeepSocket(Aborted(cs, {c} \cap Flying))

CancelForgotten(c) == KeepSocket(calls)  \* slip: the cancellation is not emitted
Cancel(c) ==
    LET told == [calls EXCEPT ![c].cancelled = @ \/ ~(calls[c].kind = "connect"
                                                       /\ calls[c].late)] IN
    IF calls[c].stage = "done" THEN KeepSocket(calls)
    ELSE IF calls[c].kind = "connect" THEN CancelConnect(c, told)
    ELSE KeepSocket(Aborted(told, {c} \cap Flying))

RunCancel(c) ==
    /\ Run("cancel", c)
    /\ Cancel(c)
    /\ UNCHANGED <<active, sockets, storing>>
-----------------------------------------------------------------------------
(* The I/O thread: completions and timers.                                 *)

\* The resolver, the network or the peer has an answer.
Answered(c, due) ==
    /\ c \in Flying
    /\ calls' = [calls EXCEPT ![c].due = due]
    /\ UNCHANGED <<lifecycle, socketVars, ioVars, callerVars>>

TimesOut(c) ==
    /\ storing = 0
    /\ calls[c].stage \in {"resolving", "connecting", "moving"}
    /\ calls[c].timed /\ ~calls[c].late
    /\ LET told == [calls EXCEPT ![c].late = TRUE] IN
       IF calls[c].kind = "connect" THEN CancelConnect(c, told)
                                    ELSE KeepSocket(Aborted(told, {c} \cap Flying))
    /\ UNCHANGED <<lifecycle, active, sockets, ioVars, callerVars>>

Handler(c, stage) ==
    /\ storing = 0
    /\ calls[c].stage = stage /\ calls[c].due # "no"
    /\ UNCHANGED <<lifecycle, posted, callerVars>>

ConnectFails(c) ==
    /\ LET failed == Completed(c, "no", FALSE) IN
       IF calls[c].ep = epoch /\ IsCurrentLifecycle(c)
         THEN CloseNativeSocket(failed) ELSE KeepSocket(failed)
    /\ active' = IF active = c THEN 0 ELSE active
    /\ UNCHANGED <<sockets, storing>>

StaleGoesOn(c) == calls[c].due = "ok"  \* slip: the counters are not looked at
StillWanted(c) == calls[c].due = "ok" /\ IsCurrentLifecycle(c) /\ calls[c].ep = epoch

\* async_connect opens the socket.
Resolved(c) ==
    /\ Handler(c, "resolving")
    /\ IF StillWanted(c)
         THEN /\ calls' = [calls EXCEPT ![c].stage = "connecting", ![c].due = "no",
                                        ![c].on = sockets + 1]
              /\ open' = TRUE /\ sockets' = sockets + 1
              /\ UNCHANGED <<connected, epoch, active, storing>>
         ELSE ConnectFails(c)

\* The last test and the store of connected_ are two steps: lifecycle_ may move between.
ConnectEnds(c) ==
    /\ Handler(c, "connecting")
    /\ IF StillWanted(c) /\ ~calls[c].late /\ ~calls[c].cancelled /\ open
         THEN storing' = c /\ UNCHANGED <<socketVars, calls>>
         ELSE ConnectFails(c)

StoreConnected ==
    /\ storing # 0
    /\ connected' = TRUE
    /\ calls' = Completed(storing, "yes", FALSE)
    /\ active' = IF active = storing THEN 0 ELSE active
    /\ storing' = 0
    /\ UNCHANGED <<lifecycle, epoch, open, sockets, posted, callerVars>>

CloseAnySocket(c, cs) == CloseNativeSocket(cs)  \* slip: whoever's socket it is
CloseForOperation(c, cs) ==
    IF calls[c].ep = epoch THEN CloseNativeSocket(cs) ELSE KeepSocket(cs)

WriteEnds(c) ==
    /\ Handler(c, "moving")
    /\ calls[c].kind = "write"
    /\ IF calls[c].due = "ok"
         THEN KeepSocket(Completed(c, "yes", FALSE))
         ELSE CloseForOperation(c, Completed(c, "no", TRUE))
    /\ UNCHANGED <<active, sockets, storing>>

NeverFatal(c, some) == FALSE  \* slip: a cancelled read of an exact size leaves the rest
\* A read that was cut off inside what it had to read leaves no way to go on.
Fatal(c, some) ==
    LET r == calls[c] IN
    IF r.cancelled THEN r.kind = "exact"
    ELSE r.due # "ok" /\ (~r.late \/ (r.kind = "exact" /\ some))

\* Is what was received returned?
Returned(c) ==
    LET r == calls[c] IN
    IF r.cancelled THEN r.kind = "some" ELSE r.due = "ok" \/ (r.late /\ r.kind = "some")

\* some: was anything received?
ReadEnds(c, some) ==
    /\ Handler(c, "moving")
    /\ calls[c].kind \in {"some", "exact"}
    /\ calls[c].due = "ok" => some
    /\ LET read == Completed(c, IF some /\ Returned(c) THEN "yes" ELSE "no",
                             some /\ ~Returned(c)) IN
       IF Fatal(c, some) THEN CloseForOperation(c, read) ELSE KeepSocket(read)
    /\ UNCHANGED <<active, sockets, storing>>

IoStep ==
    \/ \E c \in Calls :
          \/ RunClose(c) \/ StartConnect(c) \/ StartTransfer(c) \/ RunCancel(c)
          \/ Resolved(c) \/ ConnectEnds(c) \/ WriteEnds(c)
          \/ \E some \in BOOLEAN : ReadEnds(c, some)
    \/ StoreConnected
-----------------------------------------------------------------------------
Rest == (\A c \in Calls : pc[c] = "idle") /\ made = MaxCalls /\ UNCHANGED vars

Next ==
    \/ \E c \in Calls :
          \/ \E kind \in Kinds, timed \in BOOLEAN : Call(c, kind, timed)
          \/ AskToCancel(c) \/ CallerStep(c)
          \/ TimesOut(c) \/ \E due \in {"ok", "failed"} : Answered(c, due)
    \/ IoStep
    \/ Rest

Spec == Init /\ [][Next]_vars

\* Threads are scheduled and timers go off.  Nobody owes an answer or a cancellation.
FairSpec ==
    /\ Spec
    /\ \A c \in Calls : WF_vars(CallerStep(c)) /\ WF_vars(TimesOut(c))
    /\ WF_vars(IoStep)
-----------------------------------------------------------------------------
Stages ==
    {"new", "closed", "posted", "resolving", "connecting", "moving", "done"}
CallState ==
    [kind : Kinds, timed : BOOLEAN, mine : Nat, ep : Nat, stage : Stages,
     due : {"no", "ok", "failed"}, asked : BOOLEAN, cancelled : BOOLEAN, late : BOOLEAN,
     answer : {"none", "no", "yes"}, torn : BOOLEAN, on : Nat]

Work == [what : {"close", "start", "cancel"}, call : Calls]

TypeOK ==
    /\ connected \in BOOLEAN /\ open \in BOOLEAN
    /\ lifecycle \in Nat /\ epoch \in Nat /\ sockets \in Nat /\ made \in 0 .. MaxCalls
    /\ active \in {0} \cup Calls /\ storing \in {0} \cup Calls
    /\ posted \in Seq(Work)
    /\ pc \in [Calls -> {"idle", "lock", "take", "mark", "dispatch", "wait", "begin",
                         "await"}]
    /\ calls \in [Calls -> CallState]

Connects(c) == calls[c].kind = "connect" /\ calls[c].answer = "yes"

\* When no Connect or Disconnect is under way the socket is open only if the last of them
\* was a Connect that succeeded.
NoSocketLeftOpen ==
    (\A c \in Calls : pc[c] = "idle" \/ calls[c].kind \in Transfers) =>
        (open => \E c \in Calls : Connects(c) /\ calls[c].mine = lifecycle
                                  /\ calls[c].on = sockets)

\* While no Connect or Disconnect has followed a Connect that succeeded, and each transfer
\* on its socket has succeeded, that socket is open.
OnlyItsOwnClose ==
    \A c \in Calls :
        /\ Connects(c) /\ calls[c].mine = lifecycle
        /\ \A d \in Calls : calls[d].kind \in Transfers /\ calls[d].on = calls[c].on =>
                                calls[d].stage = "moving" \/ calls[d].answer = "yes"
        => open

\* The socket is that of the last Connect.  No attempt that was cut short, overtaken or
\* late leaves one behind, nothing left over from an earlier socket closes it, and
\* connected_ never speaks of a socket that is closed.
SocketIsTheLastConnects ==
    /\ connected => open
    /\ NoSocketLeftOpen
    /\ OnlyItsOwnClose

\* What the place of its caller tells about a call.
CallFits(c) ==
    LET r == calls[c] IN
    /\ r.stage = "done" <=> r.answer # "none"
    /\ r.stage = "new" => ~r.asked
    /\ r.torn => r.stage = "done"
    /\ pc[c] \in {"lock", "take", "mark", "dispatch"} => r.stage = "new"
    /\ pc[c] = "wait" => r.stage \in {"new", "closed"}
    /\ pc[c] = "begin" => r.stage = (IF r.kind = "connect" THEN "closed" ELSE "new")
    /\ pc[c] = "await" => r.stage \notin {"new", "closed"}
    /\ pc[c] \in {"take", "mark", "dispatch", "wait"} => r.kind \notin Transfers
    /\ pc[c] \in {"lock", "begin", "await"} => r.kind # "disconnect"
    /\ r.stage \in {"posted", "resolving", "connecting", "moving"} => pc[c] = "await"
    /\ r.stage \in {"resolving", "connecting"} => r.kind = "connect"
    /\ r.stage = "moving" => r.kind \in Transfers
    /\ r.kind = "connect" /\ r.stage # "new" => r.mine > 0
    /\ pc[c] \in {"mark", "dispatch", "wait"} => r.mine > 0
    /\ c > made => pc[c] = "idle" /\ r.kind = "disconnect" /\ r.stage = "new"

\* Each work is posted once, for a call that is there for it.
WorkFits(w) ==
    /\ w.what = "close" => pc[w.call] = "wait" /\ calls[w.call].stage = "new"
    /\ w.what = "start" => calls[w.call].stage = "posted"
    /\ w.what = "cancel" => calls[w.call].asked \/ calls[w.call].stage = "done"
PostedFits ==
    /\ \A i, j \in DOMAIN posted : posted[i] = posted[j] => i = j
    /\ \A i \in DOMAIN posted : WorkFits(posted[i])

\* A lifecycle is one call's.
LifecyclesDiffer ==
    \A c \in Calls :
        /\ calls[c].mine <= lifecycle
        /\ \A d \in Calls : c # d /\ calls[c].mine = calls[d].mine => calls[c].mine = 0

\* Among the operations on sockets the epoch tells which of them are on the present one.
EpochTellsSocket ==
    \A c \in Calls :
        /\ calls[c].ep <= epoch /\ calls[c].on <= sockets
        /\ calls[c].stage \in {"connecting", "moving"} =>
              /\ calls[c].ep = epoch => calls[c].on = sockets
              /\ calls[c].on = sockets /\ open => calls[c].ep = epoch

\* A Connect that is still the last has closed the old socket, and nobody opens one before
\* it does.
CleanStart ==
    \A c \in Calls :
        /\ calls[c].kind = "connect" /\ calls[c].mine = lifecycle
        /\ calls[c].stage \in {"closed", "posted", "resolving"}
        => /\ ~open
           /\ \A d \in Calls :
                 calls[d].stage \in {"connecting", "moving"} => calls[d].ep # epoch

\* An open socket is the last Connect's, or will be closed by the last Connect or Disconnect.
CloseComing ==
    \E d \in Calls : /\ calls[d].mine = lifecycle /\ calls[d].stage = "new"
                     /\ pc[d] \in {"mark", "dispatch", "wait"}
OwnSocket(c) ==
    /\ calls[c].kind = "connect" /\ calls[c].mine = lifecycle /\ calls[c].on = sockets
    /\ (calls[c].stage = "connecting" /\ calls[c].ep = epoch) \/ calls[c].answer = "yes"
OpenIsOwned ==
    /\ connected => open
    /\ open => CloseComing \/ \E c \in Calls : OwnSocket(c)
    /\ storing # 0 => /\ open
                      /\ calls[storing].stage = "connecting" /\ calls[storing].ep = epoch

\* The last Connect's socket is open until an operation on it fails.
OpenUntilFailure ==
    \A c \in Calls :
        Connects(c) /\ calls[c].mine = lifecycle =>
            \/ open /\ calls[c].on = sockets
            \/ \E d \in Calls : /\ calls[d].kind \in Transfers /\ calls[d].answer = "no"
                                /\ calls[d].on = calls[c].on


\* A connection that is still open has given its readers every byte taken from it and has
\* been given every write whole, whatever was cancelled or timed out on it: the packets
\* that follow are not read or written out of step.
StreamStaysWhole ==
    \A c \in Calls : calls[c].torn /\ calls[c].on = sockets => ~open

\* What whose socket is open rests on.
SocketInv ==
    /\ TypeOK /\ (\A c \in Calls : CallFits(c)) /\ PostedFits
    /\ LifecyclesDiffer /\ EpochTellsSocket /\ CleanStart
    /\ OpenIsOwned /\ OpenUntilFailure

IInv == SocketInv /\ SocketIsTheLastConnects

\* Call c has no reason to go on: it waits for the I/O thread, its time has
\* passed, it has been cancelled or its socket is gone.
Due(c) ==
    \/ pc[c] \in {"take", "mark", "dispatch", "wait", "begin"}
          /\ calls[c].kind \in {"connect", "disconnect"}
    \/ /\ pc[c] = "await"
       /\ \/ calls[c].timed \/ calls[c].asked
          \/ calls[c].stage = "moving" /\ (calls[c].on # sockets \/ ~open)

\* Such calls come back, all of them.
CallsEnd == (\E c \in Calls : Due(c)) ~> \A c \in Calls : ~Due(c)
=============================================================================
