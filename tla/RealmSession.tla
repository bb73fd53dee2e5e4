---------------------------- MODULE RealmSession ----------------------------
(***************************************************************************)
(* RealmSession (net/wotlk/protocol/world_protocol): the connection to a   *)
(* realm and its transfer to another server.  The server redirects the     *)
(* client; a second stream is opened on a thread of its own; the server    *)
(* suspends communication, and what the client sends is held; the order    *)
(* to send what is queued ends the transfer, on the second stream, which   *)
(* replaces the first, or on the first, which then stays.                  *)
(*                                                                         *)
(* Four actors: the owning thread (sends, cancels, leaves), the reader     *)
(* (the future that connects and authenticates, an operation of the glue   *)
(* flow or NetworkRecvThread in the world, one after another: whoever      *)
(* loops in RecvPacket), the secondary thread, and the servers, which may  *)
(* send anything and close any stream.  The owner and the reader both call *)
(* CancelPendingIo.  A critical section is a step; send_mutex_ is held     *)
(* over several steps only while CompleteConnectionTransfer joins and      *)
(* flushes.  Every SendPacket, the session's own CMSG_REDIRECTION_FAILED   *)
(* included, is a packet numbered in the order of the calls.  What         *)
(* Authenticate writes, framing and the contents of packets are left out,  *)
(* transfer_cookie_ with them.                                             *)
(***************************************************************************)
EXTENDS Naturals, Sequences

CONSTANTS
    MaxSends,     \* bound: packets the owner sends in one connection
    MaxControl,   \* bound: packets about transfers that the servers send
    MaxStreams,   \* bound: streams made, the first included
    MaxConnects   \* bound: calls of Connect

ASSUME BoundAssumption ==
    /\ {MaxSends, MaxControl, MaxStreams, MaxConnects} \subseteq Nat
    /\ MaxStreams # 0

Streams == 1 .. MaxStreams
NoStream == 0

\* connected_ and the pending notice are numbered: a connection is a call of Connect.
Connections == 1 .. MaxConnects
Nobody == 0
Those(n) == {n} \ {Nobody}

\* Who calls CancelPendingIo, Disconnect and Connect.
Callers == {"owner", "reader"}

\* The packets of a transfer, as HandleConnectionPacket tells them apart: a valid
\* redirect, one with a wrong digest, any of them cut short, and everything else.
Control == {"redirect", "forged", "malformed", "suspend", "force"}
Kinds == Control \cup {"data"}

VARIABLES
    connected,    \* connected_, and of which connection; Nobody: FALSE
    notify,       \* disconnect_notification_pending_, likewise
    phase,        \* phase_: the character screen, the world, or any other
    up,           \* the streams whose TcpClient is connected
    primary,      \* primary_stream_
    secondary,    \* secondary_stream_
    suspended,    \* transfer_pending_
    held,         \* held_outbound_packets_
    ctl,          \* secondary_control_packets_
    secGone,      \* secondary_disconnected_
    event,        \* secondary_event_pending_
    stop,         \* secondary_stop_requested_
    sec,          \* label of the secondary thread; "none": not joinable
    secPacket,    \* what it publishes
    io,           \* label of the reader; "calling": in CancelPendingIo or Connect
    role,         \* ConnectionRole of the packet it handles
    kind,         \* and its kind
    after,        \* what the reader does when StopSecondaryConnection returns
    task,         \* what it loops in RecvPacket for
    readerStop,   \* stop_requested_ of the receive thread, cancel_requested of a future
    at,           \* label of each caller of CancelPendingIo, and of the owner beside it
    goal,         \* what each calls it for
    seen,         \* was_connected of each: the connections it stands for
    connects,     \* calls of Connect
    budget,       \* packets about transfers that the servers may still send
    made,         \* streams made
    accepted,     \* history: packets SendPacket accepted in this connection
    wire,         \* history: those written on a stream
    broken,       \* history: a flush failed
    deaf,         \* history: streams whose server does not expect such packets yet
    due,          \* history: connections whose disconnected callback has to run
    silent        \* history: those of them that a write of the receive thread dropped

streamVars == <<up, primary, secondary>>
sendVars == <<suspended, held, accepted, wire, broken, deaf>>
eventVars == <<ctl, secGone, event>>
secVars == <<sec, secPacket>>
ioVars == <<io, role, kind, after, task, readerStop>>
callVars == <<at, goal, seen, connects>>
dropVars == <<connected, notify, phase, due, silent>>
serverVars == <<budget, made>>
vars == <<dropVars, streamVars, sendVars, eventVars, stop, secVars, ioVars,
          callVars, serverVars>>

Init ==
    /\ connected = Nobody /\ notify = Nobody /\ due = {} /\ silent = {}
    /\ phase = "other"
    /\ up = {} /\ primary = 1 /\ secondary = NoStream
    /\ suspended = FALSE /\ held = <<>>
    /\ accepted = 0 /\ wire = <<>> /\ broken = FALSE /\ deaf = {}
    /\ ctl = <<>> /\ secGone = FALSE /\ event = FALSE
    /\ stop = FALSE /\ sec = "none" /\ secPacket = "data"
    /\ io = "off" /\ role = "primary" /\ kind = "data" /\ after = "none"
    /\ task = "none" /\ readerStop = FALSE
    /\ at = [c \in Callers |-> "idle"] /\ goal = [c \in Callers |-> "cancel"]
    /\ seen = [c \in Callers |-> {}] /\ connects = 0
    /\ budget = MaxControl /\ made = 1

Connected == connected # Nobody /\ primary \in up   \* connected()
SendLocked == io \in {"joinHeld", "promote", "flush"}
-----------------------------------------------------------------------------
(* Sending.  A write may fail while the stream still looks connected; on   *)
(* the primary stream that ends the connection.                            *)

\* A failed write clears connected_ and tells nobody.  SendPacket returns FALSE to the owner,
\* a future ends with its connection; of the receive thread's the owner should be told.
Drop(who) ==
    /\ connected' = Nobody
    /\ phase' = "other"
    /\ IF who = "reader" /\ task = "receive"
       THEN silent' = silent \cup Those(connected) /\ UNCHANGED due
       ELSE due' = due \ {connected} /\ UNCHANGED silent
    /\ UNCHANGED notify

Wrote(stream) ==
    /\ stream \in up
    /\ UNCHANGED <<up, dropVars>>

WriteFails(stream, who) ==
    /\ up' = up \ {stream}
    /\ IF stream \in up /\ stream = primary
       THEN Drop(who)
       ELSE UNCHANGED dropVars

Hold ==
    /\ suspended
    /\ held' = Append(held, accepted + 1)
    /\ accepted' = accepted + 1
    /\ UNCHANGED <<wire, dropVars, up>>

WriteNow(who) ==
    \/ /\ Wrote(primary)
       /\ wire' = Append(wire, accepted + 1)
       /\ accepted' = accepted + 1
       /\ UNCHANGED held
    \/ /\ WriteFails(primary, who)
       /\ UNCHANGED <<wire, accepted, held>>

SendOrHold(who) == Hold \/ (~suspended /\ WriteNow(who))

\* SendPacket, called with send_mutex_ free
SendPacket(who) ==
    /\ IF Connected
       THEN SendOrHold(who)
       ELSE UNCHANGED <<wire, accepted, held, dropVars, up>>
    /\ UNCHANGED <<suspended, broken, deaf, primary, secondary>>

OwnerSends ==
    /\ at["owner"] = "idle"
    /\ ~SendLocked
    /\ Connected
    /\ accepted < MaxSends
    /\ SendPacket("owner")
    /\ UNCHANGED <<eventVars, stop, secVars, ioVars, callVars, serverVars>>
-----------------------------------------------------------------------------
(* The secondary thread: SecondaryReceiveMain.                             *)

SecUnchanged ==
    UNCHANGED <<primary, secondary, stop, ioVars, callVars, made>>

\* The connection is made, or refused, timed out or cancelled.
SecConnect ==
    /\ sec = "connect"
    /\ up' = up \cup {secondary}
    /\ sec' = "read"
    /\ UNCHANGED <<secPacket, sendVars, dropVars, eventVars, budget>>
    /\ SecUnchanged

PublishAsPacket ==  \* slip: a lost stream is queued like a packet
    sec' = "push" /\ secPacket' = "gone" /\ UNCHANGED secGone

\* PublishSecondaryDisconnect, but for the flag it raises last.
PublishDisconnect ==
    IF stop
    THEN sec' = "ended" /\ UNCHANGED <<secGone, secPacket>>
    ELSE sec' = "signal" /\ secGone' = TRUE /\ secPacket' = "gone"

\* The stream could not be connected, closes, or sends what does not belong to a
\* transfer or a challenge that cannot be answered.
SecLost ==
    /\ sec \in {"connect", "read"}
    /\ up' = up \ {secondary}
    /\ PublishDisconnect
    /\ UNCHANGED <<sendVars, dropVars, ctl, event, budget>>
    /\ SecUnchanged

SecStopped ==
    /\ sec = "read"
    /\ stop
    /\ sec' = "ended"
    /\ UNCHANGED <<up, secPacket, sendVars, dropVars, eventVars, budget>>
    /\ SecUnchanged

\* A packet of the second server: a challenge, or one of a transfer, a cut-short redirect
\* or suspend among them.
SecPacket ==
    /\ sec = "read"
    /\ secondary \in up
    /\ ~stop
    /\ budget > 0
    /\ budget' = budget - 1
    /\ UNCHANGED <<up, suspended, held, accepted, wire, broken, dropVars, eventVars>>
    /\ SecUnchanged

SecChallenge == SecPacket /\ sec' = "answer" /\ UNCHANGED <<secPacket, deaf>>

\* The order to send what is queued says that this server listens.
SecReceive(k) ==
    /\ SecPacket
    /\ secPacket' = k
    /\ sec' = "push"
    /\ deaf' = IF k = "force" THEN deaf \ {secondary} ELSE deaf

\* CMSG_REDIRECTION_AUTH_PROOF goes out on the second stream at once, suspended or not and
\* without send_mutex_; it is not a packet of SendPacket's.
SecAnswer ==
    /\ sec = "answer"
    /\ \/ Wrote(secondary) /\ sec' = "read" /\ UNCHANGED <<secPacket, secGone>>
       \/ WriteFails(secondary, "secondary") /\ PublishDisconnect
    /\ UNCHANGED <<sendVars, ctl, event, budget>>
    /\ SecUnchanged

SecPush ==
    /\ sec = "push"
    /\ ctl' = Append(ctl, secPacket)
    /\ sec' = "signal"
    /\ UNCHANGED <<up, secPacket, sendVars, dropVars, secGone, event, budget>>
    /\ SecUnchanged

SecSignal ==
    /\ sec = "signal"
    /\ event' = TRUE
    /\ sec' = IF secPacket \in {"force", "gone"} THEN "ended" ELSE "read"
    /\ secPacket' = "data"
    /\ UNCHANGED <<up, sendVars, dropVars, ctl, secGone, budget>>
    /\ SecUnchanged

SecStep ==
    \/ SecConnect \/ SecLost \/ SecStopped
    \/ SecChallenge \/ SecAnswer \/ SecPush \/ SecSignal

\* What the thread does whether or not the server says anything more.
SecMoves ==
    \/ SecStopped \/ SecAnswer \/ SecPush \/ SecSignal
    \/ sec = "connect" /\ (SecConnect \/ SecLost)
    \/ secondary \notin up /\ SecLost
-----------------------------------------------------------------------------
(* The reader: RecvPacket.                                                 *)

IoUnchanged == UNCHANGED <<secVars, callVars, readerStop>>
Handle(r, k) == io' = "handle" /\ role' = r /\ kind' = k /\ UNCHANGED <<after, task>>
At(label) ==
    /\ io' = label
    /\ IF label \in {"loop", "over", "off", "calling"}
       THEN role' = "primary" /\ kind' = "data" /\ after' = "none"
       ELSE UNCHANGED <<role, kind, after>>
    /\ task' = IF label = "off" THEN "none" ELSE task
StartStop(then) ==
    io' = "stop" /\ after' = then /\ role' = "primary" /\ kind' = "data" /\ UNCHANGED task
NothingSent == UNCHANGED <<sendVars, dropVars, streamVars>>

LeaveLoop ==
    /\ io = "loop"
    /\ ~Connected \/ readerStop
    /\ At("over")
    /\ NothingSent
    /\ UNCHANGED <<eventVars, stop, serverVars>>
    /\ IoUnchanged

\* TakeSecondaryEvent; whatever remains keeps the event pending.
TakeSecondaryEvent ==
    /\ io = "loop"
    /\ Connected /\ ~readerStop
    /\ IF ctl # <<>>
       THEN /\ Handle("secondary", Head(ctl))
            /\ ctl' = Tail(ctl)
            /\ event' = (Tail(ctl) # <<>> \/ secGone)
            /\ UNCHANGED secGone
       ELSE IF secGone
       THEN /\ StartStop("failed")
            /\ secGone' = FALSE
            /\ event' = FALSE
            /\ UNCHANGED ctl
       ELSE /\ At("read")
            /\ event' = FALSE
            /\ UNCHANGED <<ctl, secGone>>
    /\ NothingSent
    /\ UNCHANGED <<stop, serverVars>>
    /\ IoUnchanged

\* A packet of the primary stream; only those of a transfer count against the bound.
Receive(k) ==
    /\ io = "read"
    /\ primary \in up
    /\ ~event /\ ~readerStop
    /\ k = "redirect" => made < MaxStreams
    /\ IF k = "data" THEN UNCHANGED budget
       ELSE budget > 0 /\ budget' = budget - 1
    /\ Handle("primary", k)
    /\ deaf' = IF k = "force" THEN deaf \ {primary} ELSE deaf
    /\ UNCHANGED <<suspended, held, accepted, wire, broken, dropVars, streamVars,
                   eventVars, stop, made>>
    /\ IoUnchanged

\* The read is interrupted, times out, or finds the stream closed: an event of the
\* secondary is taken first, and only a reader that was not told to stop treats the
\* loss as the end of the connection.
ReadFails ==
    /\ io = "read"
    /\ \/ UNCHANGED up
       \/ up' = up \ {primary}
    /\ IF event THEN At("loop")
       ELSE IF readerStop THEN At("over")
       ELSE IF primary \notin up' THEN StartStop("abort")
       ELSE At("over")
    /\ UNCHANGED <<primary, secondary, sendVars, dropVars, eventVars, stop, serverVars>>
    /\ IoUnchanged

\* A call of CancelPendingIo, which raises secondary_stop_requested_ first.
Call(c, what) ==
    /\ at[c] = "idle"
    /\ at' = [at EXCEPT ![c] = "notice"]
    /\ goal' = [goal EXCEPT ![c] = what]
    /\ stop' = TRUE
    /\ UNCHANGED seen

\* Authenticate drops the connection it could not use, on the reader's thread.
GiveUpAuth ==
    /\ task = "auth"
    /\ Call("reader", "cancel")
    /\ At("calling")
    /\ UNCHANGED <<secVars, connects, readerStop>>

\* RecvPacket returned FALSE: its caller tries again, or ends as it was told to, or as
\* the connection or its time is over.
Over ==
    /\ io = "over"
    /\ \/ Connected /\ ~readerStop /\ At("loop") /\ UNCHANGED stop /\ IoUnchanged
       \/ /\ \/ task = "operation"
             \/ task = "receive" /\ (~Connected \/ readerStop)
             \/ task = "auth" /\ ~Connected
          /\ At("off") /\ UNCHANGED stop /\ IoUnchanged
       \/ GiveUpAuth
    /\ NothingSent
    /\ UNCHANGED <<eventVars, serverVars>>
-----------------------------------------------------------------------------
(* HandleConnectionPacket.                                                 *)

\* What a packet that has no place in the transfer leads to.
Reject == StartStop(IF role = "primary" THEN "abort" ELSE "failed")

Refused ==
    /\ io = "handle"
    /\ \/ kind = "malformed"
       \/ kind = "forged" /\ secondary = NoStream /\ ~suspended
       \/ kind = "suspend" /\ (role = "secondary" \/ suspended \/ secondary = NoStream)
       \/ kind = "data" /\ suspended
    /\ Reject
    /\ NothingSent
    /\ UNCHANGED <<eventVars, stop, serverVars>>
    /\ IoUnchanged

\* What no transfer is about goes to whoever asked: it is put aside, or the receive thread
\* calls again; or it is the answer, for good, or a refusal, or no challenge to answer.
Deliver ==
    /\ io = "handle"
    /\ kind = "data" /\ ~suspended
    /\ \/ At("loop") /\ UNCHANGED stop /\ IoUnchanged
       \/ task # "receive" /\ At("off") /\ UNCHANGED stop /\ IoUnchanged
       \/ task # "receive" /\ At("finish") /\ UNCHANGED stop /\ IoUnchanged
       \/ GiveUpAuth
    /\ NothingSent
    /\ UNCHANGED <<eventVars, serverVars>>

\* Authenticate and EnterWorld store the new phase whatever became of the connection.
Finish ==
    /\ io = "finish"
    /\ phase' = IF task = "auth" THEN "select" ELSE "world"
    /\ At("off")
    /\ UNCHANGED <<connected, notify, due, silent, streamVars, sendVars, eventVars, stop,
                   serverVars>>
    /\ IoUnchanged

\* A transfer is under way, or the thread of the last one was not joined: the
\* redirect is refused.
RedirectUnavailable ==
    /\ io = "handle"
    /\ kind \in {"redirect", "forged"}
    /\ \/ secondary # NoStream
       \/ suspended
       \/ kind = "redirect" /\ sec # "none"
    /\ SendPacket("reader")
    /\ At("loop")
    /\ UNCHANGED <<eventVars, stop, serverVars>>
    /\ IoUnchanged

ClearPackets ==  \* slip: a lost stream is still reported
    ctl' = <<>> /\ UNCHANGED secGone /\ event' = FALSE
ClearEvents == ctl' = <<>> /\ secGone' = FALSE /\ event' = FALSE

StartSecondaryConnection ==
    /\ io = "handle"
    /\ kind = "redirect"
    /\ secondary = NoStream /\ ~suspended /\ sec = "none"
    /\ made' = made + 1
    /\ secondary' = made + 1
    /\ deaf' = deaf \cup {made + 1}
    /\ ClearEvents
    /\ stop' = FALSE
    /\ sec' = "connect"
    /\ At("loop")
    /\ UNCHANGED <<up, primary, suspended, held, accepted, wire, broken, dropVars,
                   secPacket, callVars, readerStop, budget>>

\* SMSG_SUSPEND_COMMS: acknowledged on the primary stream, whatever becomes of the
\* acknowledgement.
Suspend ==
    /\ io = "handle"
    /\ kind = "suspend"
    /\ role = "primary" /\ ~suspended /\ secondary # NoStream
    /\ Wrote(primary) \/ WriteFails(primary, "reader")
    /\ suspended' = TRUE
    /\ deaf' = deaf \cup {primary}
    /\ At("loop")
    /\ UNCHANGED <<held, accepted, wire, broken, primary, secondary, eventVars, stop,
                   serverVars>>
    /\ IoUnchanged

ForceOnNew ==  \* slip: any order to send what is queued promotes the new stream
    /\ io = "handle"
    /\ kind = "force"
    /\ IF secondary # NoStream
       THEN io' = "joinHeld" /\ role' = "secondary" /\ UNCHANGED <<kind, after, task>>
       ELSE StartStop("flush")
    /\ NothingSent
    /\ UNCHANGED <<eventVars, stop, serverVars>>
    /\ IoUnchanged

ForceSend ==
    /\ io = "handle"
    /\ kind = "force"
    /\ IF role = "secondary" THEN At("joinHeld") ELSE StartStop("flush")
    /\ NothingSent
    /\ UNCHANGED <<eventVars, stop, serverVars>>
    /\ IoUnchanged
-----------------------------------------------------------------------------
(* StopSecondaryConnection and what the reader calls it for.               *)

StopStream ==  \* slip: the thread is not told to stop
    /\ io = "stop"
    /\ up' = up \ {secondary}
    /\ At("stopJoin")
    /\ UNCHANGED <<primary, secondary, sendVars, dropVars, eventVars, stop, serverVars>>
    /\ IoUnchanged

StopSecondary ==
    /\ io = "stop"
    /\ stop' = TRUE
    /\ up' = up \ {secondary}
    /\ At("stopJoin")
    /\ UNCHANGED <<primary, secondary, sendVars, dropVars, eventVars, serverVars>>
    /\ IoUnchanged

Joinable == sec \in {"none", "ended"}

StopNoJoin ==  \* slip: the stream is dropped with its thread still running
    /\ io = "stopJoin"
    /\ At("stopClear")
    /\ NothingSent
    /\ UNCHANGED <<secVars, eventVars, stop, callVars, readerStop, serverVars>>

StopJoin ==
    /\ io = "stopJoin"
    /\ Joinable
    /\ sec' = "none"
    /\ At("stopClear")
    /\ NothingSent
    /\ UNCHANGED <<secPacket, eventVars, stop, callVars, readerStop, serverVars>>

StopClear ==
    /\ io = "stopClear"
    /\ secondary' = NoStream
    /\ up' = up \ {secondary}
    /\ deaf' = deaf \ {secondary}
    /\ ClearEvents
    /\ stop' = FALSE
    /\ At(after)
    /\ UNCHANGED <<primary, suspended, held, accepted, wire, broken, dropVars, serverVars>>
    /\ IoUnchanged

\* AbortConnectionFromIo leaves the callback to the owning thread.
AbortDrop ==
    /\ io = "abort"
    /\ up' = up \ {primary}
    /\ connected' = Nobody
    /\ phase' = "other"
    /\ At(IF connected # Nobody THEN "notify" ELSE "over")
    /\ UNCHANGED <<notify, due, silent, primary, secondary, sendVars, eventVars, stop,
                   serverVars>>
    /\ IoUnchanged

Forget == UNCHANGED notify  \* slip: the owning thread is not told
Remember == notify' = connects  \* the reader's connection is the latest

AbortNotify ==
    /\ io = "notify"
    /\ Remember
    /\ At("over")
    /\ UNCHANGED <<connected, phase, due, silent, streamVars, sendVars, eventVars, stop,
                   serverVars>>
    /\ IoUnchanged

\* HandleSecondaryDisconnect tells the server; a suspended session stays suspended.
ReportFailed ==
    /\ io = "failed"
    /\ SendPacket("reader")
    /\ At("loop")
    /\ UNCHANGED <<eventVars, stop, serverVars>>
    /\ IoUnchanged
-----------------------------------------------------------------------------
(* CompleteConnectionTransfer.                                             *)

JoinHeld ==
    /\ io = "joinHeld"
    /\ Joinable
    /\ sec' = "none"
    /\ At("promote")
    /\ NothingSent
    /\ UNCHANGED <<secPacket, eventVars, stop, callVars, readerStop, serverVars>>

\* The secondary stream replaces the primary one, which is closed.
Promote ==
    /\ io = "promote"
    /\ up' = up \ {primary}
    /\ deaf' = deaf \ {primary}
    /\ primary' = secondary
    /\ secondary' = NoStream
    /\ At("flush")
    /\ UNCHANGED <<suspended, held, accepted, wire, broken, dropVars, eventVars, stop,
                   serverVars>>
    /\ IoUnchanged

EndTransfer == At("loop") /\ ClearEvents /\ stop' = FALSE

\* Communication resumes; what was held goes out first, in order, under send_mutex_.
\* A failure ends the flush: after a promotion it ends the connection as well.
FlushNext(next) ==
    /\ io = "flush"
    /\ held # <<>>
    /\ suspended' = FALSE
    /\ held' = Tail(held)
    /\ \/ /\ Wrote(primary)
          /\ wire' = Append(wire, next)
          /\ At("flush")
          /\ UNCHANGED <<broken, eventVars, stop>>
       \/ /\ up' = up \ {primary}
          /\ IF role = "secondary" \/ primary \in up
             THEN Drop("reader")
             ELSE UNCHANGED dropVars
          /\ broken' = TRUE
          /\ EndTransfer
          /\ UNCHANGED wire
    /\ UNCHANGED <<accepted, deaf, primary, secondary, serverVars>>
    /\ IoUnchanged

FlushLast == FlushNext(held[Len(held)])  \* slip: the wrong end of the queue
Flush == FlushNext(Head(held))

FlushEnd ==
    /\ io = "flush"
    /\ held = <<>>
    /\ suspended' = FALSE
    /\ EndTransfer
    /\ UNCHANGED <<held, accepted, wire, broken, deaf, streamVars, dropVars, serverVars>>
    /\ IoUnchanged

IoStep ==
    \/ LeaveLoop \/ TakeSecondaryEvent \/ ReadFails \/ Over \/ Finish
    \/ Refused \/ Deliver \/ RedirectUnavailable \/ StartSecondaryConnection
    \/ Suspend \/ ForceSend
    \/ StopSecondary \/ StopJoin \/ StopClear
    \/ AbortDrop \/ AbortNotify \/ ReportFailed
    \/ JoinHeld \/ Promote \/ Flush \/ FlushEnd
-----------------------------------------------------------------------------
(* CancelPendingIo, Disconnect and Connect, on the thread of caller c.     *)

Go(c, label) ==
    /\ at' = [at EXCEPT ![c] = label]
    /\ goal' = IF label \notin {"idle", "joinReader"} THEN goal
               ELSE [goal EXCEPT ![c] = "cancel"]
CallUnchanged == UNCHANGED <<secPacket, connects, serverVars>>

ExchangeNotice(c) == seen' = [seen EXCEPT ![c] = Those(notify)] /\ notify' = Nobody

TakeNotice(c) ==
    /\ at[c] = "notice"
    /\ ExchangeNotice(c)
    /\ Go(c, "drop")
    /\ UNCHANGED <<connected, phase, due, silent, streamVars, sendVars, eventVars, stop, sec,
                   ioVars>>
    /\ CallUnchanged

TakeConnected(c) ==
    /\ at[c] = "drop"
    /\ seen' = [seen EXCEPT ![c] = @ \cup Those(connected)]
    /\ connected' = Nobody
    /\ Go(c, "close")
    /\ UNCHANGED <<notify, phase, due, silent, streamVars, sendVars, eventVars, stop, sec,
                   ioVars>>
    /\ CallUnchanged

CloseStreams(c) ==
    /\ at[c] = "close"
    /\ up' = up \ {primary, secondary}
    /\ Go(c, "join")
    /\ UNCHANGED <<dropVars, primary, secondary, sendVars, eventVars, stop, sec, ioVars, seen>>
    /\ CallUnchanged

Join(c) ==
    /\ at[c] = "join"
    /\ Joinable
    /\ sec' = "none"
    /\ Go(c, "callback")
    /\ UNCHANGED <<dropVars, streamVars, sendVars, eventVars, stop, ioVars, seen>>
    /\ CallUnchanged

\* disconnected_callback_ runs once, for whatever was_connected stands for.  A thread that
\* was only to be cancelled is joined next, with its connection gone.
Callback(c) ==
    /\ at[c] = "callback"
    /\ phase' = "other"
    /\ due' = due \ seen[c]
    /\ seen' = [seen EXCEPT ![c] = {}]
    /\ Go(c, CASE goal[c] = "cancel" -> "idle"
               [] goal[c] = "giveUp" -> "joinReader"
               [] OTHER -> "clear")
    /\ IF c = "reader" /\ goal[c] = "cancel" THEN At("off") /\ UNCHANGED readerStop
       ELSE UNCHANGED ioVars
    /\ UNCHANGED <<connected, notify, silent, streamVars, sendVars, eventVars, stop, sec>>
    /\ CallUnchanged

\* The rest of Disconnect, after CancelPendingIo.
ClearSession(c) ==
    /\ at[c] = "clear"
    /\ suspended' = FALSE
    /\ held' = <<>>
    /\ accepted' = 0 /\ wire' = <<>> /\ broken' = FALSE
    /\ ClearEvents
    /\ stop' = FALSE
    /\ up' = up \ {secondary}
    /\ deaf' = deaf \ {secondary}
    /\ secondary' = NoStream
    /\ Go(c, IF goal[c] = "connect" THEN "open" ELSE "idle")
    /\ UNCHANGED <<dropVars, primary, sec, ioVars, seen>>
    /\ CallUnchanged

\* Connect goes on with the stream object of the last connection; a CancelPendingIo of the
\* owner closes it, or comes too early to matter.
Open ==
    /\ at["reader"] = "open"
    /\ \/ /\ up' = up \cup {primary}
          /\ deaf' = deaf \ {primary}
          /\ Go("reader", "publish")
          /\ UNCHANGED ioVars
       \/ /\ UNCHANGED <<up, deaf>>
          /\ Go("reader", "idle")
          /\ At("off") /\ UNCHANGED readerStop
    /\ UNCHANGED <<dropVars, primary, secondary, suspended, held, accepted, wire, broken,
                   eventVars, stop, sec, seen>>
    /\ CallUnchanged

Publish ==
    /\ at["reader"] = "publish"
    /\ connected' = connects
    /\ phase' = "other"
    /\ due' = due \cup {connects}
    /\ Go("reader", "idle")
    /\ At("loop") /\ UNCHANGED readerStop
    /\ UNCHANGED <<notify, silent, streamVars, sendVars, eventVars, stop, sec, seen>>
    /\ CallUnchanged

CallStep(c) ==
    \/ TakeNotice(c) \/ TakeConnected(c) \/ CloseStreams(c) \/ Join(c)
    \/ Callback(c) \/ ClearSession(c)
-----------------------------------------------------------------------------
(* The owning thread.                                                      *)

OwnUnchanged ==
    UNCHANGED <<dropVars, streamVars, sendVars, eventVars, secVars, connects, serverVars>>

\* A heartbeat of the world that finds the last ping unanswered, while the reader may be
\* anywhere.
Cancel ==
    /\ phase = "world" /\ Connected
    /\ Call("owner", "cancel")
    /\ UNCHANGED ioVars
    /\ OwnUnchanged

\* A user who gives up: what the glue flow waits for is told to stop, cancelled, and joined.
\* An operation need not look at the flag.  The glue flow is over when the receive thread runs.
GiveUp ==
    /\ task # "receive"
    /\ Call("owner", "giveUp")
    /\ \/ readerStop' = TRUE
       \/ task = "operation" /\ UNCHANGED readerStop
    /\ UNCHANGED <<io, role, kind, after, task>>
    /\ OwnUnchanged

\* The world is left, or a list no longer wanted: the reader is told to stop, and joined.
Leave ==
    /\ at["owner"] = "idle"
    /\ readerStop' = TRUE
    /\ Go("owner", "joinReader")
    /\ UNCHANGED <<stop, io, role, kind, after, task, seen>>
    /\ OwnUnchanged

\* The reader is gone.  The session is kept, by ReturnToCharacterSelect if it is in the
\* world, or disconnected.
Return ==
    /\ at["owner"] = "joinReader"
    /\ io = "off"
    /\ phase = "world" => Connected
    /\ phase' = IF phase = "world" THEN "select" ELSE phase
    /\ Go("owner", "idle")
    /\ UNCHANGED <<connected, notify, due, silent, streamVars, sendVars, eventVars, stop,
                   secVars, ioVars, seen, connects, serverVars>>

Disconnect ==
    /\ at["owner"] = "joinReader"
    /\ io = "off"
    /\ stop' = TRUE
    /\ at' = [at EXCEPT !["owner"] = "notice"]
    /\ goal' = [goal EXCEPT !["owner"] = "disconnect"]
    /\ UNCHANGED <<ioVars, seen>>
    /\ OwnUnchanged

\* Connect and Authenticate run in a future, and disconnect first.
Connect ==
    /\ at["owner"] = "idle"
    /\ io = "off"
    /\ connects < MaxConnects
    /\ connects' = connects + 1
    /\ Call("reader", "connect")
    /\ io' = "calling" /\ task' = "auth" /\ readerStop' = FALSE
    /\ UNCHANGED <<role, kind, after>>
    /\ UNCHANGED <<dropVars, streamVars, sendVars, eventVars, secVars, serverVars>>

\* A future of the character screen, or the receive thread of the world.
StartReader(t) ==
    /\ at["owner"] = "idle"
    /\ io = "off"
    /\ Connected
    /\ phase = IF t = "receive" THEN "world" ELSE "select"
    /\ io' = "loop" /\ task' = t /\ readerStop' = FALSE
    /\ UNCHANGED <<role, kind, after, stop, at, goal, seen>>
    /\ OwnUnchanged

\* Two threads join the secondary thread: undefined, and with the usual libraries the end
\* of the process (or nothing, which Join and StopJoin cover).
DoubleJoin ==
    /\ at["owner"] = "join"
    /\ io \in {"stopJoin", "joinHeld"} \/ at["reader"] = "join"
    /\ sec # "none"
    /\ at' = [c \in Callers |-> "dead"] /\ io' = "dead" /\ sec' = "none"
    /\ connected' = Nobody /\ notify' = Nobody /\ up' = {}
    /\ ClearEvents
    /\ UNCHANGED <<phase, due, silent, primary, secondary, sendVars, stop, secPacket, role,
                   kind, after, task, readerStop, goal, seen, connects, serverVars>>

Dead == io = "dead" /\ UNCHANGED vars
-----------------------------------------------------------------------------
Next ==
    \/ OwnerSends \/ Cancel \/ GiveUp \/ Leave \/ Return \/ Disconnect \/ Connect
    \/ \E t \in {"operation", "receive"} : StartReader(t)
    \/ \E c \in Callers : CallStep(c)
    \/ Open \/ Publish
    \/ IoStep
    \/ \E k \in Kinds : Receive(k)
    \/ SecStep
    \/ \E k \in Control : SecReceive(k)
    \/ DoubleJoin \/ Dead

Spec == Init /\ [][Next]_vars

UnsentPings == ~suspended /\ Cancel  \* slip: a held ping is not counted

\* Pings are held while the session is suspended, so every suspension that lasts in the
\* world comes to an unanswered one.  ServiceHeartbeat counts them in the world only.
OverdueHeartbeat == suspended /\ Cancel

\* Threads are scheduled, reads and writes time out, and the owner's frames go on; the
\* servers owe nothing.
FairSpec ==
    /\ Spec
    /\ WF_vars(CallStep("owner") \/ Return \/ Disconnect)
    /\ WF_vars(OverdueHeartbeat)
    /\ WF_vars(IoStep \/ CallStep("reader") \/ Open \/ Publish)
    /\ WF_vars(SecMoves)
-----------------------------------------------------------------------------
FlagsOK ==
    /\ suspended \in BOOLEAN /\ broken \in BOOLEAN
    /\ secGone \in BOOLEAN /\ event \in BOOLEAN /\ stop \in BOOLEAN /\ readerStop \in BOOLEAN
    /\ connected \in Connections \cup {Nobody} /\ notify \in Connections \cup {Nobody}
    /\ due \subseteq Connections /\ silent \subseteq Connections
    /\ seen \in [Callers -> SUBSET Connections]

StreamsOK ==
    /\ up \subseteq Streams /\ deaf \subseteq Streams
    /\ primary \in Streams
    /\ secondary \in Streams \cup {NoStream}
    /\ made \in 1 .. MaxStreams
    /\ budget \in 0 .. MaxControl
    /\ connects \in 0 .. MaxConnects

QueuesOK ==
    /\ held \in Seq(Nat) /\ wire \in Seq(Nat) /\ accepted \in Nat
    /\ ctl \in Seq(Control)

IoLabels == {"off", "loop", "read", "over", "finish", "calling", "handle", "stop",
             "stopJoin", "stopClear", "abort", "notify", "failed", "joinHeld", "promote",
             "flush", "dead"}
CallLabels == {"idle", "notice", "drop", "close", "join", "callback", "clear", "open",
               "publish", "joinReader", "dead"}

LabelsOK ==
    /\ sec \in {"none", "connect", "read", "answer", "push", "signal", "ended"}
    /\ secPacket \in Kinds \cup {"gone"}
    /\ io \in IoLabels
    /\ role \in {"primary", "secondary"}
    /\ kind \in Kinds
    /\ after \in {"none", "abort", "failed", "flush"}
    /\ task \in {"none", "auth", "operation", "receive"}
    /\ phase \in {"other", "select", "world"}
    /\ at \in [Callers -> CallLabels]
    /\ goal \in [Callers -> {"cancel", "giveUp", "disconnect", "connect"}]

TypeOK == FlagsOK /\ StreamsOK /\ QueuesOK /\ LabelsOK

\* SendPacket keeps its word: the packets it accepted are written in the order of the
\* calls, none lost or sent twice, whether they were held, carried to another stream or
\* sent at once; those still held are the last ones.  Only a flush that failed loses
\* any, and then nothing more is sent: the connection is over.
NothingLostInTransfer ==
    IF broken THEN ~Connected
    ELSE wire \o held = [n \in 1 .. accepted |-> n]

\* A packet goes only to a server that listens: not to one that has suspended the session,
\* before its order to send what is queued, nor to a second one before its own, in whatever
\* order the servers send these and whichever stream is lost, stopped or replaced meanwhile.
OnlyToListeners == [][Len(wire') > Len(wire) => primary \notin deaf]_vars

\* What the secondary thread published is signalled: a reader about to block in its read
\* is woken for it, unless the thread is about to raise the flag.
PublishedIsSignalled ==
    ctl # <<>> \/ secGone => event \/ sec = "signal"

\* The end of a transfer finds the stream to promote: CompleteConnectionTransfer never
\* calls Disconnect, and with it the owner's callback, for want of one.
NoDisconnectFromIo == io \in {"joinHeld", "promote"} => role = "secondary" /\ secondary # NoStream

\* The secondary stream is there for whoever needs it.  A joinable secondary thread has
\* it in place: otherwise no later redirect could ever be followed, as
\* StartSecondaryConnection refuses while one is joinable.  And so has the end of a
\* transfer.
ThreadHasStream ==
    /\ sec # "none" => secondary # NoStream
    /\ NoDisconnectFromIo

\* What a label of the reader, or of the secondary thread, says of the rest.
ReaderFits ==
    /\ io \in {"stop", "stopJoin", "stopClear"} => after # "none"
    /\ io = "handle" /\ role = "secondary" => secondary # NoStream
    /\ io = "handle" /\ role = "primary" /\ kind = "redirect" => made < MaxStreams
    /\ io \in {"stopClear", "promote", "flush"} => sec = "none"
    /\ sec = "push" => secPacket \in Control

\* The two streams are never one, and what the secondary thread has published belongs to
\* a stream that is there, until the end of the transfer clears it.
StreamsDiffer ==
    /\ primary <= made /\ secondary <= made
    /\ primary # secondary
    /\ ctl # <<>> \/ secGone => secondary # NoStream \/ io = "flush"

\* Whoever ordered what is queued to be sent listens, from the order's receipt to the flush.
ListenersKnown ==
    /\ connected # Nobody \/ at["reader"] = "publish" => suspended \/ primary \notin deaf
    /\ \/ sec = "push" /\ secPacket = "force"
       \/ \E i \in 1 .. Len(ctl) : ctl[i] = "force"
       \/ io = "handle" /\ kind = "force" /\ role = "secondary"
       \/ io \in {"joinHeld", "promote"}
       => secondary \notin deaf
    /\ \/ io = "handle" /\ kind = "force" /\ role = "primary"
       \/ io \in {"stop", "stopJoin", "stopClear"} /\ after = "flush"
       \/ io = "flush"
       => primary \notin deaf

\* A caller of CancelPendingIo has nothing to announce unless it is about to, and one that
\* has disconnected for good finds no thread and no connection left.  The owner does so
\* when the reader is gone.
CallersFit ==
    /\ io = "calling" <=> at["reader"] \notin {"idle", "dead"}
    /\ io = "dead" <=> at["owner"] = "dead"
    /\ at["reader"] = "dead" => io = "dead"
    /\ at["reader"] # "joinReader" /\ at["owner"] \notin {"open", "publish"}
    /\ at["reader"] \in {"clear", "open", "publish"} => goal["reader"] = "connect"
    /\ at["owner"] = "clear" => goal["owner"] = "disconnect"
    /\ goal["owner"] # "connect" /\ goal["reader"] \in {"cancel", "connect"}
    /\ at["owner"] \in {"notice", "drop", "close", "join", "callback", "clear"}
          /\ goal["owner"] = "disconnect" => io = "off"
    /\ at["owner"] \in {"callback", "clear"} /\ goal["owner"] = "disconnect" => sec = "none"
    /\ at["reader"] \in {"callback", "clear", "open", "publish"} => sec = "none"

\* The callback that a connection owes is in one place: still connected, about to be left
\* to the owner, left to it, taken by one of the callers, or dropped in silence.
OneNotice ==
    /\ \A c \in Callers : seen[c] # {} => at[c] \in {"drop", "close", "join", "callback", "dead"}
    /\ seen["owner"] \cap seen["reader"] = {}
    /\ connected \notin seen["owner"] \cup seen["reader"] \cup silent
    /\ notify \notin seen["owner"] \cup seen["reader"] \cup silent
    /\ io = "notify" => connects \notin seen["owner"] \cup seen["reader"] \cup silent
    /\ (seen["owner"] \cup seen["reader"]) \cap silent = {}
    /\ connected # Nobody => notify # connected /\ io # "notify"
    /\ io = "notify" => connected = Nobody /\ notify # connects
    /\ due \subseteq Those(connected) \cup Those(notify) \cup seen["owner"] \cup seen["reader"]
                    \cup silent \cup (IF io = "notify" THEN {connects} ELSE {})
                    \cup (IF io = "dead" THEN Connections ELSE {})
    /\ Those(connected) \cup Those(notify) \cup seen["owner"] \cup seen["reader"] \subseteq due
    /\ io = "notify" => connects \in due

\* The reader works for the connection made last.
LatestConnection ==
    /\ io # "calling" => {connected, notify} \subseteq {Nobody, connects}
    /\ \A n \in due \cup silent : n <= connects
    /\ goal["reader"] = "connect" =>
          /\ connects # Nobody
          /\ connects \notin due \cup silent
    /\ at["reader"] \in {"close", "join", "callback", "clear", "open", "publish"}
          => connected = Nobody
    /\ at["reader"] \in {"drop", "close", "join", "callback", "clear", "open", "publish"}
          => notify = Nobody
    /\ at["owner"] \in {"drop", "close", "join", "callback", "clear"}
          /\ goal["owner"] = "disconnect" => notify = Nobody
    /\ at["owner"] \in {"close", "join", "callback", "clear"}
          /\ goal["owner"] = "disconnect" => connected = Nobody

\* What is held waits for the end of a transfer, or was given up by a failed flush, after
\* which the reader only leaves its loop.
HeldIsKept ==
    /\ held # <<>> => suspended \/ io = "flush" \/ broken
    /\ broken => io \in {"loop", "over", "off", "calling", "dead"}
                 /\ at["reader"] \notin {"open", "publish"}

\* Types, the two invariants that the reader's waits rely on, and what they, the sends
\* and the callback rest on.
IInv ==
    /\ TypeOK
    /\ PublishedIsSignalled
    /\ ThreadHasStream
    /\ ReaderFits
    /\ StreamsDiffer
    /\ ListenersKnown
    /\ CallersFit
    /\ OneNotice
    /\ LatestConnection
    /\ HeldIsKept

\* The disconnected callback runs at most once for a connection, though the reader and the
\* owner may drop it together, and both go through CancelPendingIo at the same time.  When
\* either has disconnected for good, the callback has run for every connection before,
\* those the reader aborted included, or the other is about to run it: no notice is
\* forgotten, except as DropIsAnnounced says.
AnnouncedOnce ==
    /\ \A c \in Callers : at[c] = "callback" => seen[c] \subseteq due
    /\ at["owner"] = "clear" => due \subseteq silent
    /\ at["reader"] = "clear" => due \subseteq silent \cup seen["owner"]

\* What the header says of disconnect_notification_pending_: a connection dropped from
\* the I/O path is announced by the owner's next CancelPendingIo.
DropIsAnnounced == at["owner"] = "clear" => due = {}

\* Leaving the world, or giving up, waits for the reader; or the world is suspended.
Waiting ==
    \/ at["owner"] = "joinReader" /\ io # "off"
    \/ phase = "world" /\ suspended /\ Connected

\* Neither lasts, whatever the servers do: a reader that is told to stop stops, and a
\* session in the world does not stay suspended behind a silent server, as the transfer
\* ends or the connection does.
WaitingEnds == []<>~Waiting
=============================================================================
