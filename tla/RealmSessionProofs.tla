-------------------------- MODULE RealmSessionProofs --------------------------
(***************************************************************************)
(* Proofs about RealmSession, for any number of streams, packets,          *)
(* redirects and connections, and for any packet the servers may send:     *)
(* what SendPacket accepts is written in the order of its calls across     *)
(* transfers, to servers that listen for it, one disconnected callback is  *)
(* run for a connection, and the reader never blocks with an event of the  *)
(* secondary connection that nobody would wake it for.                     *)
(*                                                                         *)
(* Inductive joins IInv and the order of what is sent: which stream is     *)
(* whose decides where a packet goes, and who drops a connection decides   *)
(* who tells it.  The lemmas are one per action, each with one step per    *)
(* conjunct; the last two theorems follow from the invariant.              *)
(***************************************************************************)
EXTENDS RealmSession, Integers, TLAPS

USE DEF streamVars, sendVars, eventVars, secVars, ioVars, callVars, dropVars, serverVars,
        Nobody, Those, Callers

Inductive == IInv /\ NothingLostInTransfer
-----------------------------------------------------------------------------
(* Numbered packets in sequences.                                           *)

Numbered(n) == [k \in 1 .. n |-> k]

\* SendPacket numbers the packets it accepts; the next goes behind those on the wire and
\* those held.
LEMMA Accept ==
    ASSUME NEW w \in Seq(Nat), NEW h \in Seq(Nat), NEW n \in Nat, w \o h = Numbered(n)
    PROVE  /\ Append(h, n + 1) \in Seq(Nat) /\ Append(w, n + 1) \in Seq(Nat)
           /\ w \o Append(h, n + 1) = Numbered(n + 1)
           /\ h = <<>> => Append(w, n + 1) \o h = Numbered(n + 1)
  <1>1. Len(w) + Len(h) = n
    BY Len(w \o h) = Len(w) + Len(h), Len(Numbered(n)) = n DEF Numbered
  <1>2. Append(h, n + 1) \in Seq(Nat) /\ Append(w, n + 1) \in Seq(Nat)
    OBVIOUS
  <1>3. w \o Append(h, n + 1) = Append(w \o h, n + 1)
    OBVIOUS
  <1>4. Append(Numbered(n), n + 1) = Numbered(n + 1)
    BY DEF Numbered
  <1>5. h = <<>> => w = Numbered(n) /\ Append(w, n + 1) \o h = Append(w, n + 1)
    OBVIOUS
  <1> QED  BY <1>2, <1>3, <1>4, <1>5

\* FlushHeldOutboundPackets moves one packet from the front of the held ones to the wire.
LEMMA FlushOne ==
    ASSUME NEW w \in Seq(Nat), NEW h \in Seq(Nat), h # <<>>
    PROVE  /\ Tail(h) \in Seq(Nat) /\ Append(w, Head(h)) \in Seq(Nat)
           /\ Append(w, Head(h)) \o Tail(h) = w \o h
  OBVIOUS

\* What a SendPacket does, whoever calls it: a connection it drops is left to the owner in
\* silence, or was its caller's to report.
Sent ==
    /\ NothingLostInTransfer'
    /\ held' \in Seq(Nat) /\ wire' \in Seq(Nat) /\ accepted' \in Nat
    /\ held' # held => suspended
    /\ up' \subseteq up
    /\ UNCHANGED <<notify, suspended, broken, deaf, primary, secondary>>
    /\ \/ UNCHANGED <<connected, phase, due, silent>>
       \/ /\ connected' = Nobody /\ phase' = "other"
          /\ \/ silent' = silent \cup Those(connected) /\ UNCHANGED due
             \/ due' = due \ {connected} /\ UNCHANGED silent

\* SendPacket, whoever calls it: written, held, or refused when nothing is connected.
LEMMA SendPacketSends ==
    ASSUME Inductive, NEW who \in Callers, SendPacket(who), io # "flush"
    PROVE  Sent
  <1> USE DEF Inductive, IInv, SendPacket
  <1>1. CASE ~Connected
    BY <1>1 DEF Sent, NothingLostInTransfer, TypeOK, QueuesOK, Connected
  <1>2. CASE Connected
    <2>1. ~broken /\ wire \o held = Numbered(accepted)
      BY <1>2 DEF NothingLostInTransfer, Numbered
    <2>2. held \in Seq(Nat) /\ wire \in Seq(Nat) /\ accepted \in Nat
      BY DEF TypeOK, QueuesOK
    <2>3. CASE Hold
      <3>1. wire' \o held' = Numbered(accepted')
        BY <2>1, <2>2, <2>3, Accept DEF Hold
      <3>2. NothingLostInTransfer'  BY <3>1, <2>1 DEF NothingLostInTransfer, Numbered
      <3> QED  BY <2>2, <2>3, <3>2, Accept, <2>1 DEF Sent, Hold
    <2>4. CASE ~suspended /\ WriteNow(who)
      <3>1. held = <<>>
        BY <2>1, <2>4 DEF HeldIsKept
      <3>2. CASE /\ Wrote(primary)
                 /\ wire' = Append(wire, accepted + 1)
                 /\ accepted' = accepted + 1
                 /\ UNCHANGED held
        <4>1. wire' \o held' = Numbered(accepted')
          BY <2>1, <2>2, <3>1, <3>2, Accept
        <4>2. NothingLostInTransfer'  BY <4>1, <2>1 DEF NothingLostInTransfer, Numbered
        <4> QED  BY <2>2, <3>2, <4>2, Accept, <2>1 DEF Sent, Wrote
      <3>3. CASE WriteFails(primary, who) /\ UNCHANGED <<wire, accepted, held>>
        <4>1. NothingLostInTransfer'  BY <2>1, <3>3 DEF NothingLostInTransfer, Numbered
        <4> QED  BY <2>2, <3>3, <4>1 DEF Sent, WriteFails, Drop
      <3> QED  BY <2>4, <3>2, <3>3 DEF WriteNow
    <2> QED  BY <1>2, <2>3, <2>4 DEF SendOrHold
  <1> QED  BY <1>1, <1>2

\* A connection dropped by a write that failed is one of those in silence, or nobody's to
\* announce; a caller that took it already keeps it.
LEMMA DropKeepsNotice ==
    ASSUME Inductive,
           UNCHANGED <<notify, seen, at, connects>>,
           io' = io \/ (io \notin {"notify", "dead"} /\ io' # "notify"),
           \/ UNCHANGED <<connected, due, silent>>
           \/ /\ connected' = Nobody
              /\ \/ silent' = silent \cup Those(connected) /\ UNCHANGED due
                 \/ due' = due \ {connected} /\ UNCHANGED silent
    PROVE  OneNotice'
  <1> USE DEF Inductive, IInv, TypeOK, FlagsOK, Connections, OneNotice
  <1>1. CASE UNCHANGED <<connected, due, silent>>
    BY <1>1
  <1>2. CASE /\ connected' = Nobody
             /\ silent' = silent \cup Those(connected) /\ UNCHANGED due
    BY <1>2
  <1>3. CASE /\ connected' = Nobody
             /\ due' = due \ {connected} /\ UNCHANGED silent
    BY <1>3
  <1> QED  BY <1>1, <1>2, <1>3

-----------------------------------------------------------------------------
(* The owning thread.                                                      *)

LEMMA CancelKeeps ==
    ASSUME Inductive, Cancel
    PROVE  Inductive'
  <1> USE DEF Inductive, IInv, TypeOK, Cancel, Call, OwnUnchanged
  <1>1. TypeOK'
    <2>1. FlagsOK'  BY DEF FlagsOK
    <2>2. StreamsOK'  BY DEF StreamsOK
    <2>3. QueuesOK'  BY DEF QueuesOK
    <2>4. LabelsOK'  BY DEF LabelsOK, CallLabels
    <2> QED  BY <2>1, <2>2, <2>3, <2>4
  <1>2. PublishedIsSignalled'  BY DEF PublishedIsSignalled
  <1>3. ThreadHasStream'  BY DEF ThreadHasStream, NoDisconnectFromIo
  <1>4. ReaderFits'  BY DEF ReaderFits
  <1>5. StreamsDiffer'  BY DEF StreamsDiffer
  <1>6. ListenersKnown'  BY DEF ListenersKnown, LabelsOK
  <1>7. CallersFit'  BY DEF CallersFit, LabelsOK
  <1>8. OneNotice'  BY DEF OneNotice, LabelsOK, FlagsOK
  <1>9. LatestConnection'  BY DEF LatestConnection, LabelsOK
  <1>10. HeldIsKept'  BY DEF HeldIsKept, LabelsOK
  <1>11. NothingLostInTransfer'  BY DEF NothingLostInTransfer, Connected
  <1> QED  BY <1>1, <1>2, <1>3, <1>4, <1>5, <1>6, <1>7, <1>8, <1>9, <1>10, <1>11

LEMMA GiveUpKeeps ==
    ASSUME Inductive, GiveUp
    PROVE  Inductive'
  <1> USE DEF Inductive, IInv, TypeOK, GiveUp, Call, OwnUnchanged
  <1>1. TypeOK'
    <2>1. FlagsOK'  BY DEF FlagsOK
    <2>2. StreamsOK'  BY DEF StreamsOK
    <2>3. QueuesOK'  BY DEF QueuesOK
    <2>4. LabelsOK'  BY DEF LabelsOK, CallLabels
    <2> QED  BY <2>1, <2>2, <2>3, <2>4
  <1>2. PublishedIsSignalled'  BY DEF PublishedIsSignalled
  <1>3. ThreadHasStream'  BY DEF ThreadHasStream, NoDisconnectFromIo
  <1>4. ReaderFits'  BY DEF ReaderFits
  <1>5. StreamsDiffer'  BY DEF StreamsDiffer
  <1>6. ListenersKnown'  BY DEF ListenersKnown, LabelsOK
  <1>7. CallersFit'  BY DEF CallersFit, LabelsOK
  <1>8. OneNotice'  BY DEF OneNotice, LabelsOK, FlagsOK
  <1>9. LatestConnection'  BY DEF LatestConnection, LabelsOK
  <1>10. HeldIsKept'  BY DEF HeldIsKept, LabelsOK
  <1>11. NothingLostInTransfer'  BY DEF NothingLostInTransfer, Connected
  <1> QED  BY <1>1, <1>2, <1>3, <1>4, <1>5, <1>6, <1>7, <1>8, <1>9, <1>10, <1>11

LEMMA LeaveKeeps ==
    ASSUME Inductive, Leave
    PROVE  Inductive'
  <1> USE DEF Inductive, IInv, TypeOK, Leave, Go, OwnUnchanged
  <1>1. TypeOK'
    <2>1. FlagsOK'  BY DEF FlagsOK
    <2>2. StreamsOK'  BY DEF StreamsOK
    <2>3. QueuesOK'  BY DEF QueuesOK
    <2>4. LabelsOK'  BY DEF LabelsOK, CallLabels
    <2> QED  BY <2>1, <2>2, <2>3, <2>4
  <1>2. PublishedIsSignalled'  BY DEF PublishedIsSignalled
  <1>3. ThreadHasStream'  BY DEF ThreadHasStream, NoDisconnectFromIo
  <1>4. ReaderFits'  BY DEF ReaderFits
  <1>5. StreamsDiffer'  BY DEF StreamsDiffer
  <1>6. ListenersKnown'  BY DEF ListenersKnown, LabelsOK
  <1>7. CallersFit'  BY DEF CallersFit, LabelsOK
  <1>8. OneNotice'  BY DEF OneNotice, LabelsOK, FlagsOK
  <1>9. LatestConnection'  BY DEF LatestConnection, LabelsOK
  <1>10. HeldIsKept'  BY DEF HeldIsKept, LabelsOK
  <1>11. NothingLostInTransfer'  BY DEF NothingLostInTransfer, Connected
  <1> QED  BY <1>1, <1>2, <1>3, <1>4, <1>5, <1>6, <1>7, <1>8, <1>9, <1>10, <1>11

LEMMA ReturnKeeps ==
    ASSUME Inductive, Return
    PROVE  Inductive'
  <1> USE DEF Inductive, IInv, TypeOK, Return, Go
  <1>1. TypeOK'
    <2>1. FlagsOK'  BY DEF FlagsOK
    <2>2. StreamsOK'  BY DEF StreamsOK
    <2>3. QueuesOK'  BY DEF QueuesOK
    <2>4. LabelsOK'  BY DEF LabelsOK, CallLabels
    <2> QED  BY <2>1, <2>2, <2>3, <2>4
  <1>2. PublishedIsSignalled'  BY DEF PublishedIsSignalled
  <1>3. ThreadHasStream'  BY DEF ThreadHasStream, NoDisconnectFromIo
  <1>4. ReaderFits'  BY DEF ReaderFits
  <1>5. StreamsDiffer'  BY DEF StreamsDiffer
  <1>6. ListenersKnown'  BY DEF ListenersKnown, LabelsOK
  <1>7. CallersFit'  BY DEF CallersFit, LabelsOK
  <1>8. OneNotice'  BY DEF OneNotice, LabelsOK, FlagsOK
  <1>9. LatestConnection'  BY DEF LatestConnection, LabelsOK
  <1>10. HeldIsKept'  BY DEF HeldIsKept, LabelsOK
  <1>11. NothingLostInTransfer'  BY DEF NothingLostInTransfer, Connected
  <1> QED  BY <1>1, <1>2, <1>3, <1>4, <1>5, <1>6, <1>7, <1>8, <1>9, <1>10, <1>11

LEMMA DisconnectKeeps ==
    ASSUME Inductive, Disconnect
    PROVE  Inductive'
  <1> USE DEF Inductive, IInv, TypeOK, Disconnect, OwnUnchanged
  <1>1. TypeOK'
    <2>1. FlagsOK'  BY DEF FlagsOK
    <2>2. StreamsOK'  BY DEF StreamsOK
    <2>3. QueuesOK'  BY DEF QueuesOK
    <2>4. LabelsOK'  BY DEF LabelsOK, CallLabels
    <2> QED  BY <2>1, <2>2, <2>3, <2>4
  <1>2. PublishedIsSignalled'  BY DEF PublishedIsSignalled
  <1>3. ThreadHasStream'  BY DEF ThreadHasStream, NoDisconnectFromIo
  <1>4. ReaderFits'  BY DEF ReaderFits
  <1>5. StreamsDiffer'  BY DEF StreamsDiffer
  <1>6. ListenersKnown'  BY DEF ListenersKnown, LabelsOK
  <1>7. CallersFit'  BY DEF CallersFit, LabelsOK
  <1>8. OneNotice'  BY DEF OneNotice, LabelsOK, FlagsOK
  <1>9. LatestConnection'  BY DEF LatestConnection, LabelsOK
  <1>10. HeldIsKept'  BY DEF HeldIsKept, LabelsOK
  <1>11. NothingLostInTransfer'  BY DEF NothingLostInTransfer, Connected
  <1> QED  BY <1>1, <1>2, <1>3, <1>4, <1>5, <1>6, <1>7, <1>8, <1>9, <1>10, <1>11

LEMMA ConnectKeeps ==
    ASSUME Inductive, Connect
    PROVE  Inductive'
  <1> USE DEF Inductive, IInv, TypeOK, Connect, Call
  <1>1. TypeOK'
    <2>1. FlagsOK'  BY DEF FlagsOK
    <2>2. StreamsOK'  BY BoundAssumption DEF StreamsOK
    <2>3. QueuesOK'  BY DEF QueuesOK
    <2>4. LabelsOK'  BY DEF LabelsOK, CallLabels, IoLabels, Kinds
    <2> QED  BY <2>1, <2>2, <2>3, <2>4
  <1>2. PublishedIsSignalled'  BY DEF PublishedIsSignalled
  <1>3. ThreadHasStream'  BY DEF ThreadHasStream, NoDisconnectFromIo
  <1>4. ReaderFits'  BY DEF ReaderFits
  <1>5. StreamsDiffer'  BY DEF StreamsDiffer
  <1>6. ListenersKnown'  BY DEF ListenersKnown, LabelsOK
  <1>7. CallersFit'  BY DEF CallersFit, LabelsOK
  <1>8. OneNotice'  BY DEF OneNotice, LabelsOK, FlagsOK, CallersFit
  <1>9. LatestConnection'
    BY BoundAssumption DEF LatestConnection, LabelsOK, CallersFit, FlagsOK, StreamsOK,
       Connections
  <1>10. HeldIsKept'  BY DEF HeldIsKept, LabelsOK
  <1>11. NothingLostInTransfer'  BY DEF NothingLostInTransfer, Connected
  <1> QED  BY <1>1, <1>2, <1>3, <1>4, <1>5, <1>6, <1>7, <1>8, <1>9, <1>10, <1>11

LEMMA StartReaderKeeps ==
    ASSUME NEW t \in {"operation", "receive"}, Inductive, StartReader(t)
    PROVE  Inductive'
  <1> USE DEF Inductive, IInv, TypeOK, StartReader, OwnUnchanged, Connected
  <1>1. TypeOK'
    <2>1. FlagsOK'  BY DEF FlagsOK
    <2>2. StreamsOK'  BY DEF StreamsOK
    <2>3. QueuesOK'  BY DEF QueuesOK
    <2>4. LabelsOK'  BY DEF LabelsOK, CallLabels, IoLabels, Kinds
    <2> QED  BY <2>1, <2>2, <2>3, <2>4
  <1>2. PublishedIsSignalled'  BY DEF PublishedIsSignalled
  <1>3. ThreadHasStream'  BY DEF ThreadHasStream, NoDisconnectFromIo
  <1>4. ReaderFits'  BY DEF ReaderFits
  <1>5. StreamsDiffer'  BY DEF StreamsDiffer
  <1>6. ListenersKnown'  BY DEF ListenersKnown, LabelsOK
  <1>7. CallersFit'  BY DEF CallersFit, LabelsOK
  <1>8. OneNotice'  BY DEF OneNotice, LabelsOK, FlagsOK
  <1>9. LatestConnection'  BY DEF LatestConnection, LabelsOK
  <1>10. HeldIsKept'  BY DEF HeldIsKept, LabelsOK
  <1>11. NothingLostInTransfer'  BY DEF NothingLostInTransfer, Connected
  <1> QED  BY <1>1, <1>2, <1>3, <1>4, <1>5, <1>6, <1>7, <1>8, <1>9, <1>10, <1>11

-----------------------------------------------------------------------------
(* CancelPendingIo and Disconnect, for either caller, and the rest of Connect. *)

LEMMA TakeNoticeKeeps ==
    ASSUME NEW c \in Callers, Inductive, TakeNotice(c)
    PROVE  Inductive'
  <1> USE DEF Inductive, IInv, TypeOK, TakeNotice, ExchangeNotice, Go, CallUnchanged
  <1>1. TypeOK'
    <2>1. FlagsOK'  BY DEF FlagsOK
    <2>2. StreamsOK'  BY DEF StreamsOK
    <2>3. QueuesOK'  BY DEF QueuesOK
    <2>4. LabelsOK'  BY DEF LabelsOK, CallLabels
    <2> QED  BY <2>1, <2>2, <2>3, <2>4
  <1>2. PublishedIsSignalled'  BY DEF PublishedIsSignalled
  <1>3. ThreadHasStream'  BY DEF ThreadHasStream, NoDisconnectFromIo
  <1>4. ReaderFits'  BY DEF ReaderFits
  <1>5. StreamsDiffer'  BY DEF StreamsDiffer
  <1>6. ListenersKnown'  BY DEF ListenersKnown, LabelsOK
  <1>7. CallersFit'  BY DEF CallersFit, LabelsOK
  <1>8. OneNotice'  BY DEF OneNotice, LabelsOK, FlagsOK, CallersFit, Connections
  <1>9. LatestConnection'  BY DEF LatestConnection, LabelsOK, CallersFit
  <1>10. HeldIsKept'  BY DEF HeldIsKept, LabelsOK
  <1>11. NothingLostInTransfer'  BY DEF NothingLostInTransfer, Connected
  <1> QED  BY <1>1, <1>2, <1>3, <1>4, <1>5, <1>6, <1>7, <1>8, <1>9, <1>10, <1>11

LEMMA TakeConnectedKeeps ==
    ASSUME NEW c \in Callers, Inductive, TakeConnected(c)
    PROVE  Inductive'
  <1> USE DEF Inductive, IInv, TypeOK, TakeConnected, Go, CallUnchanged
  <1>1. TypeOK'
    <2>1. FlagsOK'  BY DEF FlagsOK
    <2>2. StreamsOK'  BY DEF StreamsOK
    <2>3. QueuesOK'  BY DEF QueuesOK
    <2>4. LabelsOK'  BY DEF LabelsOK, CallLabels
    <2> QED  BY <2>1, <2>2, <2>3, <2>4
  <1>2. PublishedIsSignalled'  BY DEF PublishedIsSignalled
  <1>3. ThreadHasStream'  BY DEF ThreadHasStream, NoDisconnectFromIo
  <1>4. ReaderFits'  BY DEF ReaderFits
  <1>5. StreamsDiffer'  BY DEF StreamsDiffer
  <1>6. ListenersKnown'  BY DEF ListenersKnown, LabelsOK
  <1>7. CallersFit'  BY DEF CallersFit, LabelsOK
  <1>8. OneNotice'  BY DEF OneNotice, LabelsOK, FlagsOK, CallersFit, Connections
  <1>9. LatestConnection'  BY DEF LatestConnection, LabelsOK, CallersFit
  <1>10. HeldIsKept'  BY DEF HeldIsKept, LabelsOK
  <1>11. NothingLostInTransfer'  BY DEF NothingLostInTransfer, Connected
  <1> QED  BY <1>1, <1>2, <1>3, <1>4, <1>5, <1>6, <1>7, <1>8, <1>9, <1>10, <1>11

LEMMA CloseStreamsKeeps ==
    ASSUME NEW c \in Callers, Inductive, CloseStreams(c)
    PROVE  Inductive'
  <1> USE DEF Inductive, IInv, TypeOK, CloseStreams, Go, CallUnchanged
  <1>1. TypeOK'
    <2>1. FlagsOK'  BY DEF FlagsOK
    <2>2. StreamsOK'  BY DEF StreamsOK
    <2>3. QueuesOK'  BY DEF QueuesOK
    <2>4. LabelsOK'  BY DEF LabelsOK, CallLabels
    <2> QED  BY <2>1, <2>2, <2>3, <2>4
  <1>2. PublishedIsSignalled'  BY DEF PublishedIsSignalled
  <1>3. ThreadHasStream'  BY DEF ThreadHasStream, NoDisconnectFromIo
  <1>4. ReaderFits'  BY DEF ReaderFits
  <1>5. StreamsDiffer'  BY DEF StreamsDiffer
  <1>6. ListenersKnown'  BY DEF ListenersKnown, LabelsOK
  <1>7. CallersFit'  BY DEF CallersFit, LabelsOK
  <1>8. OneNotice'  BY DEF OneNotice, LabelsOK, FlagsOK
  <1>9. LatestConnection'  BY DEF LatestConnection, LabelsOK
  <1>10. HeldIsKept'  BY DEF HeldIsKept, LabelsOK
  <1>11. NothingLostInTransfer'  BY DEF NothingLostInTransfer, Connected
  <1> QED  BY <1>1, <1>2, <1>3, <1>4, <1>5, <1>6, <1>7, <1>8, <1>9, <1>10, <1>11

LEMMA JoinKeeps ==
    ASSUME NEW c \in Callers, Inductive, Join(c)
    PROVE  Inductive'
  <1> USE DEF Inductive, IInv, TypeOK, Join, Joinable, Go, CallUnchanged
  <1>1. TypeOK'
    <2>1. FlagsOK'  BY DEF FlagsOK
    <2>2. StreamsOK'  BY DEF StreamsOK
    <2>3. QueuesOK'  BY DEF QueuesOK
    <2>4. LabelsOK'  BY DEF LabelsOK, CallLabels
    <2> QED  BY <2>1, <2>2, <2>3, <2>4
  <1>2. PublishedIsSignalled'  BY DEF PublishedIsSignalled
  <1>3. ThreadHasStream'  BY DEF ThreadHasStream, NoDisconnectFromIo
  <1>4. ReaderFits'  BY DEF ReaderFits
  <1>5. StreamsDiffer'  BY DEF StreamsDiffer
  <1>6. ListenersKnown'  BY DEF ListenersKnown, LabelsOK
  <1>7. CallersFit'  BY DEF CallersFit, LabelsOK
  <1>8. OneNotice'  BY DEF OneNotice, LabelsOK, FlagsOK
  <1>9. LatestConnection'  BY DEF LatestConnection, LabelsOK
  <1>10. HeldIsKept'  BY DEF HeldIsKept, LabelsOK
  <1>11. NothingLostInTransfer'  BY DEF NothingLostInTransfer, Connected
  <1> QED  BY <1>1, <1>2, <1>3, <1>4, <1>5, <1>6, <1>7, <1>8, <1>9, <1>10, <1>11

LEMMA CallbackKeeps ==
    ASSUME NEW c \in Callers, Inductive, Callback(c)
    PROVE  Inductive'
  <1> USE DEF Inductive, IInv, TypeOK, Callback, Go, CallUnchanged, At
  <1>1. TypeOK'
    <2>1. FlagsOK'  BY DEF FlagsOK
    <2>2. StreamsOK'  BY DEF StreamsOK
    <2>3. QueuesOK'  BY DEF QueuesOK
    <2>4. LabelsOK'  BY DEF LabelsOK, CallLabels, IoLabels, Kinds
    <2> QED  BY <2>1, <2>2, <2>3, <2>4
  <1>2. PublishedIsSignalled'  BY DEF PublishedIsSignalled
  <1>3. ThreadHasStream'  BY DEF ThreadHasStream, NoDisconnectFromIo, CallersFit, LabelsOK
  <1>4. ReaderFits'  BY DEF ReaderFits, CallersFit
  <1>5. StreamsDiffer'  BY DEF StreamsDiffer, CallersFit
  <1>6. ListenersKnown'  BY DEF ListenersKnown, LabelsOK
  <1>7. CallersFit'  BY DEF CallersFit, LabelsOK
  <1>8. OneNotice'  BY DEF OneNotice, LabelsOK, FlagsOK, CallersFit, Connections
  <1>9. LatestConnection'  BY DEF LatestConnection, LabelsOK, CallersFit
  <1>10. HeldIsKept'  BY DEF HeldIsKept, LabelsOK, CallersFit
  <1>11. NothingLostInTransfer'  BY DEF NothingLostInTransfer, Connected
  <1> QED  BY <1>1, <1>2, <1>3, <1>4, <1>5, <1>6, <1>7, <1>8, <1>9, <1>10, <1>11

LEMMA ClearSessionKeeps ==
    ASSUME NEW c \in Callers, Inductive, ClearSession(c)
    PROVE  Inductive'
  <1> USE DEF Inductive, IInv, TypeOK, ClearSession, ClearEvents, Go, CallUnchanged
  <1>1. TypeOK'
    <2>1. FlagsOK'  BY DEF FlagsOK
    <2>2. StreamsOK'  BY DEF StreamsOK
    <2>3. QueuesOK'  BY DEF QueuesOK
    <2>4. LabelsOK'  BY DEF LabelsOK, CallLabels
    <2> QED  BY <2>1, <2>2, <2>3, <2>4
  <1>2. PublishedIsSignalled'  BY DEF PublishedIsSignalled
  <1>3. ThreadHasStream'  BY DEF ThreadHasStream, NoDisconnectFromIo, CallersFit, LabelsOK
  <1>4. ReaderFits'  BY DEF ReaderFits, CallersFit, LabelsOK
  <1>5. StreamsDiffer'  BY DEF StreamsDiffer, StreamsOK, Streams, NoStream
  <1>6. ListenersKnown'  BY DEF ListenersKnown, LabelsOK, CallersFit, LatestConnection
  <1>7. CallersFit'  BY DEF CallersFit, LabelsOK
  <1>8. OneNotice'  BY DEF OneNotice, LabelsOK, FlagsOK
  <1>9. LatestConnection'  BY DEF LatestConnection, LabelsOK, CallersFit
  <1>10. HeldIsKept'  BY DEF HeldIsKept, LabelsOK
  <1>11. NothingLostInTransfer'  BY DEF NothingLostInTransfer, Connected
  <1> QED  BY <1>1, <1>2, <1>3, <1>4, <1>5, <1>6, <1>7, <1>8, <1>9, <1>10, <1>11

LEMMA OpenKeeps ==
    ASSUME Inductive, Open
    PROVE  Inductive'
  <1> USE DEF Inductive, IInv, TypeOK, Open, At, Go, CallUnchanged
  <1>1. TypeOK'
    <2>1. FlagsOK'  BY DEF FlagsOK
    <2>2. StreamsOK'  BY DEF StreamsOK
    <2>3. QueuesOK'  BY DEF QueuesOK
    <2>4. LabelsOK'  BY DEF LabelsOK, CallLabels, IoLabels, Kinds
    <2> QED  BY <2>1, <2>2, <2>3, <2>4
  <1>2. PublishedIsSignalled'  BY DEF PublishedIsSignalled
  <1>3. ThreadHasStream'  BY DEF ThreadHasStream, NoDisconnectFromIo, CallersFit, LabelsOK
  <1>4. ReaderFits'  BY DEF ReaderFits, CallersFit
  <1>5. StreamsDiffer'  BY DEF StreamsDiffer, CallersFit
  <1>6. ListenersKnown'  BY DEF ListenersKnown, LabelsOK, CallersFit
  <1>7. CallersFit'  BY DEF CallersFit, LabelsOK
  <1>8. OneNotice'  BY DEF OneNotice, LabelsOK, FlagsOK, CallersFit
  <1>9. LatestConnection'  BY DEF LatestConnection, LabelsOK, CallersFit
  <1>10. HeldIsKept'  BY DEF HeldIsKept, LabelsOK, CallersFit
  <1>11. NothingLostInTransfer'  BY DEF NothingLostInTransfer, Connected, HeldIsKept
  <1> QED  BY <1>1, <1>2, <1>3, <1>4, <1>5, <1>6, <1>7, <1>8, <1>9, <1>10, <1>11

LEMMA PublishKeeps ==
    ASSUME Inductive, Publish
    PROVE  Inductive'
  <1> USE DEF Inductive, IInv, TypeOK, Publish, At, Go, CallUnchanged
  <1>1. TypeOK'
    <2>1. FlagsOK'  BY DEF FlagsOK, StreamsOK, LatestConnection, CallersFit, Connections
    <2>2. StreamsOK'  BY DEF StreamsOK
    <2>3. QueuesOK'  BY DEF QueuesOK
    <2>4. LabelsOK'  BY DEF LabelsOK, CallLabels, IoLabels, Kinds
    <2> QED  BY <2>1, <2>2, <2>3, <2>4
  <1>2. PublishedIsSignalled'  BY DEF PublishedIsSignalled
  <1>3. ThreadHasStream'  BY DEF ThreadHasStream, NoDisconnectFromIo
  <1>4. ReaderFits'  BY DEF ReaderFits
  <1>5. StreamsDiffer'  BY DEF StreamsDiffer, CallersFit
  <1>6. ListenersKnown'  BY DEF ListenersKnown, LabelsOK, CallersFit
  <1>7. CallersFit'  BY DEF CallersFit, LabelsOK
  <1>8. OneNotice'
    BY DEF OneNotice, LabelsOK, FlagsOK, CallersFit, LatestConnection, Connections
  <1>9. LatestConnection'  BY DEF LatestConnection, LabelsOK, CallersFit, StreamsOK
  <1>10. HeldIsKept'  BY DEF HeldIsKept, LabelsOK, CallersFit
  <1>11. NothingLostInTransfer'  BY DEF NothingLostInTransfer, Connected, HeldIsKept
  <1> QED  BY <1>1, <1>2, <1>3, <1>4, <1>5, <1>6, <1>7, <1>8, <1>9, <1>10, <1>11

-----------------------------------------------------------------------------
(* The reader's loop, and the transfer it carries out.                     *)

LEMMA LeaveLoopKeeps ==
    ASSUME Inductive, LeaveLoop
    PROVE  Inductive'
  <1> USE DEF Inductive, IInv, TypeOK, LeaveLoop, At, NothingSent, IoUnchanged
  <1>1. TypeOK'
    <2>1. FlagsOK'  BY DEF FlagsOK
    <2>2. StreamsOK'  BY DEF StreamsOK
    <2>3. QueuesOK'  BY DEF QueuesOK
    <2>4. LabelsOK'  BY DEF LabelsOK, IoLabels, Kinds
    <2> QED  BY <2>1, <2>2, <2>3, <2>4
  <1>2. PublishedIsSignalled'  BY DEF PublishedIsSignalled
  <1>3. ThreadHasStream'  BY DEF ThreadHasStream, NoDisconnectFromIo
  <1>4. ReaderFits'  BY DEF ReaderFits
  <1>5. StreamsDiffer'  BY DEF StreamsDiffer
  <1>6. ListenersKnown'  BY DEF ListenersKnown
  <1>7. CallersFit'  BY DEF CallersFit
  <1>8. OneNotice'  BY DEF OneNotice
  <1>9. LatestConnection'  BY DEF LatestConnection
  <1>10. HeldIsKept'  BY DEF HeldIsKept
  <1>11. NothingLostInTransfer'  BY DEF NothingLostInTransfer, Connected
  <1> QED  BY <1>1, <1>2, <1>3, <1>4, <1>5, <1>6, <1>7, <1>8, <1>9, <1>10, <1>11

LEMMA TakeSecondaryEventKeeps ==
    ASSUME Inductive, TakeSecondaryEvent
    PROVE  Inductive'
  <1> USE DEF Inductive, IInv, TypeOK, TakeSecondaryEvent, At, Handle, StartStop, NothingSent,
          IoUnchanged
  <1>0. ctl # <<>> => /\ Head(ctl) \in Control /\ Tail(ctl) \in Seq(Control)
                      /\ Head(ctl) = ctl[1]
                      /\ Len(Tail(ctl)) = Len(ctl) - 1
                      /\ \A i \in 1 .. Len(Tail(ctl)) : Tail(ctl)[i] = ctl[i + 1]
    BY DEF QueuesOK
  <1>1. TypeOK'
    <2>1. FlagsOK'  BY DEF FlagsOK
    <2>2. StreamsOK'  BY DEF StreamsOK
    <2>3. QueuesOK'  BY <1>0 DEF QueuesOK
    <2>4. LabelsOK'  BY <1>0 DEF LabelsOK, IoLabels, Kinds
    <2> QED  BY <2>1, <2>2, <2>3, <2>4
  <1>2. PublishedIsSignalled'
    <2>1. CASE ctl # <<>>
      <3>1. ctl' = Tail(ctl) /\ secGone' = secGone  BY <2>1
      <3>2. event' <=> Tail(ctl) # <<>> \/ secGone  BY <2>1
      <3> HIDE DEF TakeSecondaryEvent
      <3> QED  BY <3>1, <3>2 DEF PublishedIsSignalled
    <2>2. CASE ctl = <<>>  BY <2>2 DEF PublishedIsSignalled
    <2> QED  BY <2>1, <2>2
  <1>3. ThreadHasStream'  BY DEF ThreadHasStream, NoDisconnectFromIo
  <1>4. ReaderFits'  BY <1>0 DEF ReaderFits, StreamsDiffer
  <1>5. StreamsDiffer'  BY DEF StreamsDiffer
  <1>6. ListenersKnown'
    <2> USE DEF ListenersKnown
    <2>1. CASE ctl # <<>>
      <3>1. /\ io' = "handle" /\ role' = "secondary" /\ kind' = ctl[1] /\ ctl' = Tail(ctl)
            /\ UNCHANGED <<connected, suspended, deaf, primary, secondary, sec, secPacket, at>>
        BY <2>1, <1>0
      <3>2. Len(ctl) \in Nat \ {0}  BY <2>1 DEF QueuesOK
      <3>3. (\E i \in 1 .. Len(ctl') : ctl'[i] = "force")
               => (\E i \in 1 .. Len(ctl) : ctl[i] = "force")
        BY <3>1, <3>2, <2>1, <1>0
      <3>4. kind' = "force" => (\E i \in 1 .. Len(ctl) : ctl[i] = "force")
        BY <3>1, <3>2
      <3> HIDE DEF TakeSecondaryEvent
      <3> QED  BY <3>1, <3>3, <3>4
    <2>2. CASE ctl = <<>>  BY <2>2
    <2> QED  BY <2>1, <2>2
  <1>7. CallersFit'  BY DEF CallersFit
  <1>8. OneNotice'  BY DEF OneNotice
  <1>9. LatestConnection'  BY DEF LatestConnection
  <1>10. HeldIsKept'  BY DEF HeldIsKept, NothingLostInTransfer
  <1>11. NothingLostInTransfer'  BY DEF NothingLostInTransfer
  <1> QED  BY <1>1, <1>2, <1>3, <1>4, <1>5, <1>6, <1>7, <1>8, <1>9, <1>10, <1>11

LEMMA ReceiveKeeps ==
    ASSUME NEW k \in Kinds, Inductive, Receive(k)
    PROVE  Inductive'
  <1> USE DEF Inductive, IInv, TypeOK, Receive, Handle, IoUnchanged
  <1>1. TypeOK'
    <2>1. FlagsOK'  BY DEF FlagsOK
    <2>2. StreamsOK'  BY BoundAssumption DEF StreamsOK
    <2>3. QueuesOK'  BY DEF QueuesOK
    <2>4. LabelsOK'  BY DEF LabelsOK, IoLabels, Kinds
    <2> QED  BY <2>1, <2>2, <2>3, <2>4
  <1>2. PublishedIsSignalled'  BY DEF PublishedIsSignalled
  <1>3. ThreadHasStream'  BY DEF ThreadHasStream, NoDisconnectFromIo
  <1>4. ReaderFits'  BY DEF ReaderFits
  <1>5. StreamsDiffer'  BY DEF StreamsDiffer
  <1>6. ListenersKnown'  BY DEF ListenersKnown
  <1>7. CallersFit'  BY DEF CallersFit
  <1>8. OneNotice'  BY DEF OneNotice
  <1>9. LatestConnection'  BY DEF LatestConnection
  <1>10. HeldIsKept'  BY DEF HeldIsKept
  <1>11. NothingLostInTransfer'  BY DEF NothingLostInTransfer, Connected
  <1> QED  BY <1>1, <1>2, <1>3, <1>4, <1>5, <1>6, <1>7, <1>8, <1>9, <1>10, <1>11

LEMMA ReadFailsKeeps ==
    ASSUME Inductive, ReadFails
    PROVE  Inductive'
  <1> USE DEF Inductive, IInv, TypeOK, ReadFails, At, StartStop, IoUnchanged
  <1>1. TypeOK'
    <2>1. FlagsOK'  BY DEF FlagsOK
    <2>2. StreamsOK'  BY DEF StreamsOK
    <2>3. QueuesOK'  BY DEF QueuesOK
    <2>4. LabelsOK'  BY DEF LabelsOK, IoLabels, Kinds
    <2> QED  BY <2>1, <2>2, <2>3, <2>4
  <1>2. PublishedIsSignalled'  BY DEF PublishedIsSignalled
  <1>3. ThreadHasStream'  BY DEF ThreadHasStream, NoDisconnectFromIo
  <1>4. ReaderFits'  BY DEF ReaderFits
  <1>5. StreamsDiffer'  BY DEF StreamsDiffer
  <1>6. ListenersKnown'  BY DEF ListenersKnown
  <1>7. CallersFit'  BY DEF CallersFit
  <1>8. OneNotice'  BY DEF OneNotice
  <1>9. LatestConnection'  BY DEF LatestConnection
  <1>10. HeldIsKept'  BY DEF HeldIsKept
  <1>11. NothingLostInTransfer'  BY DEF NothingLostInTransfer, Connected
  <1> QED  BY <1>1, <1>2, <1>3, <1>4, <1>5, <1>6, <1>7, <1>8, <1>9, <1>10, <1>11

LEMMA OverKeeps ==
    ASSUME Inductive, Over
    PROVE  Inductive'
  <1> USE DEF Inductive, IInv, TypeOK, Over, GiveUpAuth, Call, At, NothingSent, IoUnchanged
  <1>1. TypeOK'
    <2>1. FlagsOK'  BY DEF FlagsOK
    <2>2. StreamsOK'  BY DEF StreamsOK
    <2>3. QueuesOK'  BY DEF QueuesOK
    <2>4. LabelsOK'  BY DEF LabelsOK, CallLabels, IoLabels, Kinds
    <2> QED  BY <2>1, <2>2, <2>3, <2>4
  <1>2. PublishedIsSignalled'  BY DEF PublishedIsSignalled
  <1>3. ThreadHasStream'  BY DEF ThreadHasStream, NoDisconnectFromIo
  <1>4. ReaderFits'  BY DEF ReaderFits
  <1>5. StreamsDiffer'  BY DEF StreamsDiffer
  <1>6. ListenersKnown'  BY DEF ListenersKnown, LabelsOK
  <1>7. CallersFit'  BY DEF CallersFit, LabelsOK
  <1>8. OneNotice'  BY DEF OneNotice, LabelsOK, FlagsOK
  <1>9. LatestConnection'  BY DEF LatestConnection, LabelsOK
  <1>10. HeldIsKept'  BY DEF HeldIsKept, LabelsOK
  <1>11. NothingLostInTransfer'  BY DEF NothingLostInTransfer, Connected
  <1> QED  BY <1>1, <1>2, <1>3, <1>4, <1>5, <1>6, <1>7, <1>8, <1>9, <1>10, <1>11

LEMMA FinishKeeps ==
    ASSUME Inductive, Finish
    PROVE  Inductive'
  <1> USE DEF Inductive, IInv, TypeOK, Finish, At, NothingSent, IoUnchanged
  <1>1. TypeOK'
    <2>1. FlagsOK'  BY DEF FlagsOK
    <2>2. StreamsOK'  BY DEF StreamsOK
    <2>3. QueuesOK'  BY DEF QueuesOK
    <2>4. LabelsOK'  BY DEF LabelsOK, IoLabels, Kinds
    <2> QED  BY <2>1, <2>2, <2>3, <2>4
  <1>2. PublishedIsSignalled'  BY DEF PublishedIsSignalled
  <1>3. ThreadHasStream'  BY DEF ThreadHasStream, NoDisconnectFromIo
  <1>4. ReaderFits'  BY DEF ReaderFits
  <1>5. StreamsDiffer'  BY DEF StreamsDiffer
  <1>6. ListenersKnown'  BY DEF ListenersKnown
  <1>7. CallersFit'  BY DEF CallersFit
  <1>8. OneNotice'  BY DEF OneNotice
  <1>9. LatestConnection'  BY DEF LatestConnection
  <1>10. HeldIsKept'  BY DEF HeldIsKept
  <1>11. NothingLostInTransfer'  BY DEF NothingLostInTransfer, Connected
  <1> QED  BY <1>1, <1>2, <1>3, <1>4, <1>5, <1>6, <1>7, <1>8, <1>9, <1>10, <1>11

LEMMA RefusedKeeps ==
    ASSUME Inductive, Refused
    PROVE  Inductive'
  <1> USE DEF Inductive, IInv, TypeOK, Refused, Reject, StartStop, NothingSent, IoUnchanged
  <1>1. TypeOK'
    <2>1. FlagsOK'  BY DEF FlagsOK
    <2>2. StreamsOK'  BY DEF StreamsOK
    <2>3. QueuesOK'  BY DEF QueuesOK
    <2>4. LabelsOK'  BY DEF LabelsOK, IoLabels, Kinds
    <2> QED  BY <2>1, <2>2, <2>3, <2>4
  <1>2. PublishedIsSignalled'  BY DEF PublishedIsSignalled
  <1>3. ThreadHasStream'  BY DEF ThreadHasStream, NoDisconnectFromIo
  <1>4. ReaderFits'  BY DEF ReaderFits
  <1>5. StreamsDiffer'  BY DEF StreamsDiffer
  <1>6. ListenersKnown'  BY DEF ListenersKnown
  <1>7. CallersFit'  BY DEF CallersFit
  <1>8. OneNotice'  BY DEF OneNotice
  <1>9. LatestConnection'  BY DEF LatestConnection
  <1>10. HeldIsKept'  BY DEF HeldIsKept
  <1>11. NothingLostInTransfer'  BY DEF NothingLostInTransfer, Connected
  <1> QED  BY <1>1, <1>2, <1>3, <1>4, <1>5, <1>6, <1>7, <1>8, <1>9, <1>10, <1>11

LEMMA DeliverKeeps ==
    ASSUME Inductive, Deliver
    PROVE  Inductive'
  <1> USE DEF Inductive, IInv, TypeOK, Deliver, GiveUpAuth, Call, At, NothingSent,
       IoUnchanged
  <1>1. TypeOK'
    <2>1. FlagsOK'  BY DEF FlagsOK
    <2>2. StreamsOK'  BY DEF StreamsOK
    <2>3. QueuesOK'  BY DEF QueuesOK
    <2>4. LabelsOK'  BY DEF LabelsOK, CallLabels, IoLabels, Kinds
    <2> QED  BY <2>1, <2>2, <2>3, <2>4
  <1>2. PublishedIsSignalled'  BY DEF PublishedIsSignalled
  <1>3. ThreadHasStream'  BY DEF ThreadHasStream, NoDisconnectFromIo
  <1>4. ReaderFits'  BY DEF ReaderFits
  <1>5. StreamsDiffer'  BY DEF StreamsDiffer
  <1>6. ListenersKnown'  BY DEF ListenersKnown, LabelsOK
  <1>7. CallersFit'  BY DEF CallersFit, LabelsOK
  <1>8. OneNotice'  BY DEF OneNotice, LabelsOK, FlagsOK
  <1>9. LatestConnection'  BY DEF LatestConnection, LabelsOK
  <1>10. HeldIsKept'  BY DEF HeldIsKept, LabelsOK
  <1>11. NothingLostInTransfer'  BY DEF NothingLostInTransfer, Connected
  <1> QED  BY <1>1, <1>2, <1>3, <1>4, <1>5, <1>6, <1>7, <1>8, <1>9, <1>10, <1>11

LEMMA StartSecondaryConnectionKeeps ==
    ASSUME Inductive, StartSecondaryConnection
    PROVE  Inductive'
  <1> USE DEF Inductive, IInv, TypeOK, StartSecondaryConnection, At, ClearEvents
  <1>1. TypeOK'
    <2>1. FlagsOK'  BY DEF FlagsOK
    <2>2. StreamsOK'  BY BoundAssumption DEF StreamsOK, LabelsOK, ReaderFits, Streams
    <2>3. QueuesOK'  BY DEF QueuesOK
    <2>4. LabelsOK'  BY DEF LabelsOK, IoLabels, Kinds
    <2> QED  BY <2>1, <2>2, <2>3, <2>4
  <1>2. PublishedIsSignalled'  BY DEF PublishedIsSignalled
  <1>3. ThreadHasStream'
    BY DEF ThreadHasStream, NoDisconnectFromIo, StreamsDiffer, StreamsOK
  <1>4. ReaderFits'  BY DEF ReaderFits
  <1>5. StreamsDiffer'  BY DEF StreamsDiffer, StreamsOK, Streams
  <1>6. ListenersKnown'  BY DEF ListenersKnown, StreamsDiffer, StreamsOK, Streams
  <1>7. CallersFit'  BY DEF CallersFit, LabelsOK
  <1>8. OneNotice'  BY DEF OneNotice
  <1>9. LatestConnection'  BY DEF LatestConnection
  <1>10. HeldIsKept'  BY DEF HeldIsKept
  <1>11. NothingLostInTransfer'  BY DEF NothingLostInTransfer, Connected
  <1> QED  BY <1>1, <1>2, <1>3, <1>4, <1>5, <1>6, <1>7, <1>8, <1>9, <1>10, <1>11

LEMMA SuspendKeeps ==
    ASSUME Inductive, Suspend
    PROVE  Inductive'
  <1> USE DEF Inductive, IInv, TypeOK, Suspend, Wrote, WriteFails, Drop, At, IoUnchanged
  <1>1. TypeOK'
    <2>1. FlagsOK'  BY DEF FlagsOK
    <2>2. StreamsOK'  BY DEF StreamsOK
    <2>3. QueuesOK'  BY DEF QueuesOK
    <2>4. LabelsOK'  BY DEF LabelsOK, IoLabels, Kinds
    <2> QED  BY <2>1, <2>2, <2>3, <2>4
  <1>2. PublishedIsSignalled'  BY DEF PublishedIsSignalled
  <1>3. ThreadHasStream'  BY DEF ThreadHasStream, NoDisconnectFromIo
  <1>4. ReaderFits'  BY DEF ReaderFits
  <1>5. StreamsDiffer'  BY DEF StreamsDiffer
  <1>6. ListenersKnown'  BY DEF ListenersKnown, StreamsDiffer, CallersFit
  <1>7. CallersFit'  BY DEF CallersFit
  <1>8. OneNotice'  BY DropKeepsNotice
  <1>9. LatestConnection'  BY DEF LatestConnection, OneNotice
  <1>10. HeldIsKept'  BY DEF HeldIsKept
  <1>11. NothingLostInTransfer'  BY DEF NothingLostInTransfer, Connected
  <1> QED  BY <1>1, <1>2, <1>3, <1>4, <1>5, <1>6, <1>7, <1>8, <1>9, <1>10, <1>11

LEMMA ForceSendKeeps ==
    ASSUME Inductive, ForceSend
    PROVE  Inductive'
  <1> USE DEF Inductive, IInv, TypeOK, ForceSend, At, StartStop, NothingSent, IoUnchanged
  <1>1. TypeOK'
    <2>1. FlagsOK'  BY DEF FlagsOK
    <2>2. StreamsOK'  BY DEF StreamsOK
    <2>3. QueuesOK'  BY DEF QueuesOK
    <2>4. LabelsOK'  BY DEF LabelsOK, IoLabels, Kinds
    <2> QED  BY <2>1, <2>2, <2>3, <2>4
  <1>2. PublishedIsSignalled'  BY DEF PublishedIsSignalled
  <1>3. ThreadHasStream'  BY DEF ThreadHasStream, NoDisconnectFromIo, ReaderFits
  <1>4. ReaderFits'  BY DEF ReaderFits
  <1>5. StreamsDiffer'  BY DEF StreamsDiffer
  <1>6. ListenersKnown'  BY DEF ListenersKnown, LabelsOK
  <1>7. CallersFit'  BY DEF CallersFit
  <1>8. OneNotice'  BY DEF OneNotice
  <1>9. LatestConnection'  BY DEF LatestConnection
  <1>10. HeldIsKept'  BY DEF HeldIsKept
  <1>11. NothingLostInTransfer'  BY DEF NothingLostInTransfer, Connected
  <1> QED  BY <1>1, <1>2, <1>3, <1>4, <1>5, <1>6, <1>7, <1>8, <1>9, <1>10, <1>11

LEMMA StopSecondaryKeeps ==
    ASSUME Inductive, StopSecondary
    PROVE  Inductive'
  <1> USE DEF Inductive, IInv, TypeOK, StopSecondary, At, IoUnchanged
  <1>1. TypeOK'
    <2>1. FlagsOK'  BY DEF FlagsOK
    <2>2. StreamsOK'  BY DEF StreamsOK
    <2>3. QueuesOK'  BY DEF QueuesOK
    <2>4. LabelsOK'  BY DEF LabelsOK, IoLabels, Kinds
    <2> QED  BY <2>1, <2>2, <2>3, <2>4
  <1>2. PublishedIsSignalled'  BY DEF PublishedIsSignalled
  <1>3. ThreadHasStream'  BY DEF ThreadHasStream, NoDisconnectFromIo
  <1>4. ReaderFits'  BY DEF ReaderFits
  <1>5. StreamsDiffer'  BY DEF StreamsDiffer
  <1>6. ListenersKnown'  BY DEF ListenersKnown
  <1>7. CallersFit'  BY DEF CallersFit
  <1>8. OneNotice'  BY DEF OneNotice
  <1>9. LatestConnection'  BY DEF LatestConnection
  <1>10. HeldIsKept'  BY DEF HeldIsKept
  <1>11. NothingLostInTransfer'  BY DEF NothingLostInTransfer, Connected
  <1> QED  BY <1>1, <1>2, <1>3, <1>4, <1>5, <1>6, <1>7, <1>8, <1>9, <1>10, <1>11

LEMMA StopJoinKeeps ==
    ASSUME Inductive, StopJoin
    PROVE  Inductive'
  <1> USE DEF Inductive, IInv, TypeOK, StopJoin, Joinable, At, NothingSent
  <1>1. TypeOK'
    <2>1. FlagsOK'  BY DEF FlagsOK
    <2>2. StreamsOK'  BY DEF StreamsOK
    <2>3. QueuesOK'  BY DEF QueuesOK
    <2>4. LabelsOK'  BY DEF LabelsOK, IoLabels, Kinds
    <2> QED  BY <2>1, <2>2, <2>3, <2>4
  <1>2. PublishedIsSignalled'  BY DEF PublishedIsSignalled
  <1>3. ThreadHasStream'  BY DEF ThreadHasStream, NoDisconnectFromIo
  <1>4. ReaderFits'  BY DEF ReaderFits
  <1>5. StreamsDiffer'  BY DEF StreamsDiffer
  <1>6. ListenersKnown'  BY DEF ListenersKnown
  <1>7. CallersFit'  BY DEF CallersFit
  <1>8. OneNotice'  BY DEF OneNotice
  <1>9. LatestConnection'  BY DEF LatestConnection
  <1>10. HeldIsKept'  BY DEF HeldIsKept
  <1>11. NothingLostInTransfer'  BY DEF NothingLostInTransfer, Connected
  <1> QED  BY <1>1, <1>2, <1>3, <1>4, <1>5, <1>6, <1>7, <1>8, <1>9, <1>10, <1>11

LEMMA StopClearKeeps ==
    ASSUME Inductive, StopClear
    PROVE  Inductive'
  <1> USE DEF Inductive, IInv, TypeOK, StopClear, At, ClearEvents, IoUnchanged
  <1>1. TypeOK'
    <2>1. FlagsOK'  BY DEF FlagsOK
    <2>2. StreamsOK'  BY DEF StreamsOK
    <2>3. QueuesOK'  BY DEF QueuesOK
    <2>4. LabelsOK'  BY DEF LabelsOK, IoLabels, Kinds, ReaderFits
    <2> QED  BY <2>1, <2>2, <2>3, <2>4
  <1>2. PublishedIsSignalled'  BY DEF PublishedIsSignalled
  <1>3. ThreadHasStream'  BY DEF ThreadHasStream, NoDisconnectFromIo, LabelsOK, ReaderFits
  <1>4. ReaderFits'  BY DEF ReaderFits, LabelsOK
  <1>5. StreamsDiffer'  BY DEF StreamsDiffer, StreamsOK, Streams, NoStream
  <1>6. ListenersKnown'  BY DEF ListenersKnown, LabelsOK, ReaderFits, StreamsDiffer
  <1>7. CallersFit'  BY DEF CallersFit, LabelsOK
  <1>8. OneNotice'  BY DEF OneNotice, LabelsOK
  <1>9. LatestConnection'  BY DEF LatestConnection, LabelsOK
  <1>10. HeldIsKept'  BY DEF HeldIsKept, LabelsOK
  <1>11. NothingLostInTransfer'  BY DEF NothingLostInTransfer, Connected
  <1> QED  BY <1>1, <1>2, <1>3, <1>4, <1>5, <1>6, <1>7, <1>8, <1>9, <1>10, <1>11

LEMMA AbortDropKeeps ==
    ASSUME Inductive, AbortDrop
    PROVE  Inductive'
  <1> USE DEF Inductive, IInv, TypeOK, AbortDrop, At, IoUnchanged
  <1>1. TypeOK'
    <2>1. FlagsOK'  BY DEF FlagsOK
    <2>2. StreamsOK'  BY DEF StreamsOK
    <2>3. QueuesOK'  BY DEF QueuesOK
    <2>4. LabelsOK'  BY DEF LabelsOK, IoLabels, Kinds
    <2> QED  BY <2>1, <2>2, <2>3, <2>4
  <1>2. PublishedIsSignalled'  BY DEF PublishedIsSignalled
  <1>3. ThreadHasStream'  BY DEF ThreadHasStream, NoDisconnectFromIo
  <1>4. ReaderFits'  BY DEF ReaderFits
  <1>5. StreamsDiffer'  BY DEF StreamsDiffer
  <1>6. ListenersKnown'  BY DEF ListenersKnown
  <1>7. CallersFit'  BY DEF CallersFit
  <1>8. OneNotice'  BY DEF OneNotice, LatestConnection, FlagsOK, Connections
  <1>9. LatestConnection'  BY DEF LatestConnection, CallersFit
  <1>10. HeldIsKept'  BY DEF HeldIsKept
  <1>11. NothingLostInTransfer'  BY DEF NothingLostInTransfer, Connected
  <1> QED  BY <1>1, <1>2, <1>3, <1>4, <1>5, <1>6, <1>7, <1>8, <1>9, <1>10, <1>11

LEMMA AbortNotifyKeeps ==
    ASSUME Inductive, AbortNotify
    PROVE  Inductive'
  <1> USE DEF Inductive, IInv, TypeOK, AbortNotify, Remember, At, IoUnchanged
  <1>1. TypeOK'
    <2>1. FlagsOK'  BY DEF FlagsOK, OneNotice
    <2>2. StreamsOK'  BY DEF StreamsOK
    <2>3. QueuesOK'  BY DEF QueuesOK
    <2>4. LabelsOK'  BY DEF LabelsOK, IoLabels, Kinds
    <2> QED  BY <2>1, <2>2, <2>3, <2>4
  <1>2. PublishedIsSignalled'  BY DEF PublishedIsSignalled
  <1>3. ThreadHasStream'  BY DEF ThreadHasStream, NoDisconnectFromIo
  <1>4. ReaderFits'  BY DEF ReaderFits
  <1>5. StreamsDiffer'  BY DEF StreamsDiffer
  <1>6. ListenersKnown'  BY DEF ListenersKnown
  <1>7. CallersFit'  BY DEF CallersFit
  <1>8. OneNotice'  BY DEF OneNotice, LatestConnection, FlagsOK, Connections
  <1>9. LatestConnection'  BY DEF LatestConnection, CallersFit, OneNotice
  <1>10. HeldIsKept'  BY DEF HeldIsKept
  <1>11. NothingLostInTransfer'  BY DEF NothingLostInTransfer, Connected
  <1> QED  BY <1>1, <1>2, <1>3, <1>4, <1>5, <1>6, <1>7, <1>8, <1>9, <1>10, <1>11

LEMMA JoinHeldKeeps ==
    ASSUME Inductive, JoinHeld
    PROVE  Inductive'
  <1> USE DEF Inductive, IInv, TypeOK, JoinHeld, Joinable, At, NothingSent
  <1>1. TypeOK'
    <2>1. FlagsOK'  BY DEF FlagsOK
    <2>2. StreamsOK'  BY DEF StreamsOK
    <2>3. QueuesOK'  BY DEF QueuesOK
    <2>4. LabelsOK'  BY DEF LabelsOK, IoLabels, Kinds
    <2> QED  BY <2>1, <2>2, <2>3, <2>4
  <1>2. PublishedIsSignalled'  BY DEF PublishedIsSignalled
  <1>3. ThreadHasStream'  BY DEF ThreadHasStream, NoDisconnectFromIo
  <1>4. ReaderFits'  BY DEF ReaderFits
  <1>5. StreamsDiffer'  BY DEF StreamsDiffer
  <1>6. ListenersKnown'  BY DEF ListenersKnown
  <1>7. CallersFit'  BY DEF CallersFit
  <1>8. OneNotice'  BY DEF OneNotice
  <1>9. LatestConnection'  BY DEF LatestConnection
  <1>10. HeldIsKept'  BY DEF HeldIsKept
  <1>11. NothingLostInTransfer'  BY DEF NothingLostInTransfer, Connected
  <1> QED  BY <1>1, <1>2, <1>3, <1>4, <1>5, <1>6, <1>7, <1>8, <1>9, <1>10, <1>11

LEMMA PromoteKeeps ==
    ASSUME Inductive, Promote
    PROVE  Inductive'
  <1> USE DEF Inductive, IInv, TypeOK, Promote, At, IoUnchanged
  <1>1. TypeOK'
    <2>1. FlagsOK'  BY DEF FlagsOK
    <2>2. StreamsOK'  BY DEF StreamsOK, ThreadHasStream, NoDisconnectFromIo
    <2>3. QueuesOK'  BY DEF QueuesOK
    <2>4. LabelsOK'  BY DEF LabelsOK, IoLabels, Kinds
    <2> QED  BY <2>1, <2>2, <2>3, <2>4
  <1>2. PublishedIsSignalled'  BY DEF PublishedIsSignalled
  <1>3. ThreadHasStream'  BY DEF ThreadHasStream, NoDisconnectFromIo, ReaderFits
  <1>4. ReaderFits'  BY DEF ReaderFits
  <1>5. StreamsDiffer'
    BY DEF StreamsDiffer, ThreadHasStream, NoDisconnectFromIo, StreamsOK, Streams, NoStream
  <1>6. ListenersKnown'  BY DEF ListenersKnown, ReaderFits, StreamsOK, Streams, NoStream
  <1>7. CallersFit'  BY DEF CallersFit
  <1>8. OneNotice'  BY DEF OneNotice
  <1>9. LatestConnection'  BY DEF LatestConnection
  <1>10. HeldIsKept'  BY DEF HeldIsKept
  <1>11. NothingLostInTransfer'  BY DEF NothingLostInTransfer, Connected, HeldIsKept
  <1> QED  BY <1>1, <1>2, <1>3, <1>4, <1>5, <1>6, <1>7, <1>8, <1>9, <1>10, <1>11

LEMMA FlushEndKeeps ==
    ASSUME Inductive, FlushEnd
    PROVE  Inductive'
  <1> USE DEF Inductive, IInv, TypeOK, FlushEnd, At, ClearEvents, EndTransfer, IoUnchanged
  <1>1. TypeOK'
    <2>1. FlagsOK'  BY DEF FlagsOK
    <2>2. StreamsOK'  BY DEF StreamsOK
    <2>3. QueuesOK'  BY DEF QueuesOK
    <2>4. LabelsOK'  BY DEF LabelsOK, IoLabels, Kinds
    <2> QED  BY <2>1, <2>2, <2>3, <2>4
  <1>2. PublishedIsSignalled'  BY DEF PublishedIsSignalled
  <1>3. ThreadHasStream'  BY DEF ThreadHasStream, NoDisconnectFromIo
  <1>4. ReaderFits'  BY DEF ReaderFits
  <1>5. StreamsDiffer'  BY DEF StreamsDiffer
  <1>6. ListenersKnown'  BY DEF ListenersKnown, ReaderFits
  <1>7. CallersFit'  BY DEF CallersFit
  <1>8. OneNotice'  BY DEF OneNotice
  <1>9. LatestConnection'  BY DEF LatestConnection
  <1>10. HeldIsKept'  BY DEF HeldIsKept
  <1>11. NothingLostInTransfer'  BY DEF NothingLostInTransfer, Connected
  <1> QED  BY <1>1, <1>2, <1>3, <1>4, <1>5, <1>6, <1>7, <1>8, <1>9, <1>10, <1>11

-----------------------------------------------------------------------------
(* The secondary thread.                                                   *)

LEMMA SecConnectKeeps ==
    ASSUME Inductive, SecConnect
    PROVE  Inductive'
  <1> USE DEF Inductive, IInv, TypeOK, SecConnect, SecUnchanged
  <1>1. TypeOK'
    <2>1. FlagsOK'  BY DEF FlagsOK
    <2>2. StreamsOK'  BY DEF StreamsOK, ThreadHasStream
    <2>3. QueuesOK'  BY DEF QueuesOK
    <2>4. LabelsOK'  BY DEF LabelsOK, Kinds
    <2> QED  BY <2>1, <2>2, <2>3, <2>4
  <1>2. PublishedIsSignalled'  BY DEF PublishedIsSignalled
  <1>3. ThreadHasStream'  BY DEF ThreadHasStream, NoDisconnectFromIo
  <1>4. ReaderFits'  BY DEF ReaderFits
  <1>5. StreamsDiffer'  BY DEF StreamsDiffer
  <1>6. ListenersKnown'  BY DEF ListenersKnown
  <1>7. CallersFit'  BY DEF CallersFit
  <1>8. OneNotice'  BY DEF OneNotice
  <1>9. LatestConnection'  BY DEF LatestConnection
  <1>10. HeldIsKept'  BY DEF HeldIsKept
  <1>11. NothingLostInTransfer'  BY DEF NothingLostInTransfer, Connected, StreamsDiffer
  <1> QED  BY <1>1, <1>2, <1>3, <1>4, <1>5, <1>6, <1>7, <1>8, <1>9, <1>10, <1>11

LEMMA SecLostKeeps ==
    ASSUME Inductive, SecLost
    PROVE  Inductive'
  <1> USE DEF Inductive, IInv, TypeOK, SecLost, PublishDisconnect, SecUnchanged
  <1>1. TypeOK'
    <2>1. FlagsOK'  BY DEF FlagsOK
    <2>2. StreamsOK'  BY DEF StreamsOK
    <2>3. QueuesOK'  BY DEF QueuesOK
    <2>4. LabelsOK'  BY DEF LabelsOK, Kinds
    <2> QED  BY <2>1, <2>2, <2>3, <2>4
  <1>2. PublishedIsSignalled'  BY DEF PublishedIsSignalled
  <1>3. ThreadHasStream'  BY DEF ThreadHasStream, NoDisconnectFromIo
  <1>4. ReaderFits'  BY DEF ReaderFits
  <1>5. StreamsDiffer'  BY DEF StreamsDiffer, ThreadHasStream
  <1>6. ListenersKnown'  BY DEF ListenersKnown
  <1>7. CallersFit'  BY DEF CallersFit
  <1>8. OneNotice'  BY DEF OneNotice
  <1>9. LatestConnection'  BY DEF LatestConnection
  <1>10. HeldIsKept'  BY DEF HeldIsKept
  <1>11. NothingLostInTransfer'  BY DEF NothingLostInTransfer, Connected
  <1> QED  BY <1>1, <1>2, <1>3, <1>4, <1>5, <1>6, <1>7, <1>8, <1>9, <1>10, <1>11

LEMMA SecStoppedKeeps ==
    ASSUME Inductive, SecStopped
    PROVE  Inductive'
  <1> USE DEF Inductive, IInv, TypeOK, SecStopped, SecUnchanged
  <1>1. TypeOK'
    <2>1. FlagsOK'  BY DEF FlagsOK
    <2>2. StreamsOK'  BY DEF StreamsOK
    <2>3. QueuesOK'  BY DEF QueuesOK
    <2>4. LabelsOK'  BY DEF LabelsOK, Kinds
    <2> QED  BY <2>1, <2>2, <2>3, <2>4
  <1>2. PublishedIsSignalled'  BY DEF PublishedIsSignalled
  <1>3. ThreadHasStream'  BY DEF ThreadHasStream, NoDisconnectFromIo
  <1>4. ReaderFits'  BY DEF ReaderFits
  <1>5. StreamsDiffer'  BY DEF StreamsDiffer
  <1>6. ListenersKnown'  BY DEF ListenersKnown
  <1>7. CallersFit'  BY DEF CallersFit
  <1>8. OneNotice'  BY DEF OneNotice
  <1>9. LatestConnection'  BY DEF LatestConnection
  <1>10. HeldIsKept'  BY DEF HeldIsKept
  <1>11. NothingLostInTransfer'  BY DEF NothingLostInTransfer, Connected
  <1> QED  BY <1>1, <1>2, <1>3, <1>4, <1>5, <1>6, <1>7, <1>8, <1>9, <1>10, <1>11

LEMMA SecChallengeKeeps ==
    ASSUME Inductive, SecChallenge
    PROVE  Inductive'
  <1> USE DEF Inductive, IInv, TypeOK, SecChallenge, SecPacket, SecUnchanged
  <1>1. TypeOK'
    <2>1. FlagsOK'  BY DEF FlagsOK
    <2>2. StreamsOK'  BY BoundAssumption DEF StreamsOK
    <2>3. QueuesOK'  BY DEF QueuesOK
    <2>4. LabelsOK'  BY DEF LabelsOK, Kinds
    <2> QED  BY <2>1, <2>2, <2>3, <2>4
  <1>2. PublishedIsSignalled'  BY DEF PublishedIsSignalled
  <1>3. ThreadHasStream'  BY DEF ThreadHasStream, NoDisconnectFromIo
  <1>4. ReaderFits'  BY DEF ReaderFits
  <1>5. StreamsDiffer'  BY DEF StreamsDiffer
  <1>6. ListenersKnown'  BY DEF ListenersKnown
  <1>7. CallersFit'  BY DEF CallersFit
  <1>8. OneNotice'  BY DEF OneNotice
  <1>9. LatestConnection'  BY DEF LatestConnection
  <1>10. HeldIsKept'  BY DEF HeldIsKept
  <1>11. NothingLostInTransfer'  BY DEF NothingLostInTransfer, Connected
  <1> QED  BY <1>1, <1>2, <1>3, <1>4, <1>5, <1>6, <1>7, <1>8, <1>9, <1>10, <1>11

LEMMA SecAnswerKeeps ==
    ASSUME Inductive, SecAnswer
    PROVE  Inductive'
  <1> USE DEF Inductive, IInv, TypeOK, SecAnswer, Wrote, WriteFails, Drop,
       PublishDisconnect, SecUnchanged
  <1>1. TypeOK'
    <2>1. FlagsOK'  BY DEF FlagsOK
    <2>2. StreamsOK'  BY DEF StreamsOK
    <2>3. QueuesOK'  BY DEF QueuesOK
    <2>4. LabelsOK'  BY DEF LabelsOK, Kinds
    <2> QED  BY <2>1, <2>2, <2>3, <2>4
  <1>2. PublishedIsSignalled'  BY DEF PublishedIsSignalled
  <1>3. ThreadHasStream'  BY DEF ThreadHasStream, NoDisconnectFromIo
  <1>4. ReaderFits'  BY DEF ReaderFits
  <1>5. StreamsDiffer'  BY DEF StreamsDiffer, ThreadHasStream
  <1>6. ListenersKnown'  BY DEF ListenersKnown
  <1>7. CallersFit'  BY DEF CallersFit
  <1>8. OneNotice'  BY DEF OneNotice, StreamsDiffer
  <1>9. LatestConnection'  BY DEF LatestConnection
  <1>10. HeldIsKept'  BY DEF HeldIsKept
  <1>11. NothingLostInTransfer'  BY DEF NothingLostInTransfer, Connected, StreamsDiffer
  <1> QED  BY <1>1, <1>2, <1>3, <1>4, <1>5, <1>6, <1>7, <1>8, <1>9, <1>10, <1>11

LEMMA SecReceiveKeeps ==
    ASSUME NEW k \in Control, Inductive, SecReceive(k)
    PROVE  Inductive'
  <1> USE DEF Inductive, IInv, TypeOK, SecReceive, SecPacket, SecUnchanged
  <1>1. TypeOK'
    <2>1. FlagsOK'  BY DEF FlagsOK
    <2>2. StreamsOK'  BY BoundAssumption DEF StreamsOK
    <2>3. QueuesOK'  BY DEF QueuesOK
    <2>4. LabelsOK'  BY DEF LabelsOK, Kinds, Control
    <2> QED  BY <2>1, <2>2, <2>3, <2>4
  <1>2. PublishedIsSignalled'  BY DEF PublishedIsSignalled
  <1>3. ThreadHasStream'  BY DEF ThreadHasStream, NoDisconnectFromIo
  <1>4. ReaderFits'  BY DEF ReaderFits
  <1>5. StreamsDiffer'  BY DEF StreamsDiffer
  <1>6. ListenersKnown'  BY DEF ListenersKnown, StreamsDiffer
  <1>7. CallersFit'  BY DEF CallersFit
  <1>8. OneNotice'  BY DEF OneNotice
  <1>9. LatestConnection'  BY DEF LatestConnection
  <1>10. HeldIsKept'  BY DEF HeldIsKept
  <1>11. NothingLostInTransfer'  BY DEF NothingLostInTransfer, Connected
  <1> QED  BY <1>1, <1>2, <1>3, <1>4, <1>5, <1>6, <1>7, <1>8, <1>9, <1>10, <1>11

LEMMA SecPushKeeps ==
    ASSUME Inductive, SecPush
    PROVE  Inductive'
  <1> USE DEF Inductive, IInv, TypeOK, SecPush, SecUnchanged
  <1>1. TypeOK'
    <2>1. FlagsOK'  BY DEF FlagsOK
    <2>2. StreamsOK'  BY DEF StreamsOK
    <2>3. QueuesOK'  BY DEF QueuesOK, ReaderFits
    <2>4. LabelsOK'  BY DEF LabelsOK
    <2> QED  BY <2>1, <2>2, <2>3, <2>4
  <1>2. PublishedIsSignalled'  BY DEF PublishedIsSignalled
  <1>3. ThreadHasStream'  BY DEF ThreadHasStream, NoDisconnectFromIo
  <1>4. ReaderFits'  BY DEF ReaderFits
  <1>5. StreamsDiffer'  BY DEF StreamsDiffer, ThreadHasStream
  <1>6. ListenersKnown'  BY DEF ListenersKnown, QueuesOK
  <1>7. CallersFit'  BY DEF CallersFit
  <1>8. OneNotice'  BY DEF OneNotice
  <1>9. LatestConnection'  BY DEF LatestConnection
  <1>10. HeldIsKept'  BY DEF HeldIsKept
  <1>11. NothingLostInTransfer'  BY DEF NothingLostInTransfer, Connected
  <1> QED  BY <1>1, <1>2, <1>3, <1>4, <1>5, <1>6, <1>7, <1>8, <1>9, <1>10, <1>11

LEMMA SecSignalKeeps ==
    ASSUME Inductive, SecSignal
    PROVE  Inductive'
  <1> USE DEF Inductive, IInv, TypeOK, SecSignal, SecUnchanged
  <1>1. TypeOK'
    <2>1. FlagsOK'  BY DEF FlagsOK
    <2>2. StreamsOK'  BY DEF StreamsOK
    <2>3. QueuesOK'  BY DEF QueuesOK
    <2>4. LabelsOK'  BY DEF LabelsOK, Kinds
    <2> QED  BY <2>1, <2>2, <2>3, <2>4
  <1>2. PublishedIsSignalled'  BY DEF PublishedIsSignalled
  <1>3. ThreadHasStream'  BY DEF ThreadHasStream, NoDisconnectFromIo
  <1>4. ReaderFits'  BY DEF ReaderFits
  <1>5. StreamsDiffer'  BY DEF StreamsDiffer
  <1>6. ListenersKnown'  BY DEF ListenersKnown
  <1>7. CallersFit'  BY DEF CallersFit
  <1>8. OneNotice'  BY DEF OneNotice
  <1>9. LatestConnection'  BY DEF LatestConnection
  <1>10. HeldIsKept'  BY DEF HeldIsKept
  <1>11. NothingLostInTransfer'  BY DEF NothingLostInTransfer, Connected
  <1> QED  BY <1>1, <1>2, <1>3, <1>4, <1>5, <1>6, <1>7, <1>8, <1>9, <1>10, <1>11

LEMMA DoubleJoinKeeps ==
    ASSUME Inductive, DoubleJoin
    PROVE  Inductive'
  <1> USE DEF Inductive, IInv, TypeOK, DoubleJoin, ClearEvents
  <1>1. TypeOK'
    <2>1. FlagsOK'  BY DEF FlagsOK
    <2>2. StreamsOK'  BY DEF StreamsOK
    <2>3. QueuesOK'  BY DEF QueuesOK
    <2>4. LabelsOK'  BY DEF LabelsOK, CallLabels, IoLabels
    <2> QED  BY <2>1, <2>2, <2>3, <2>4
  <1>2. PublishedIsSignalled'  BY DEF PublishedIsSignalled
  <1>3. ThreadHasStream'  BY DEF ThreadHasStream, NoDisconnectFromIo
  <1>4. ReaderFits'  BY DEF ReaderFits
  <1>5. StreamsDiffer'  BY DEF StreamsDiffer
  <1>6. ListenersKnown'  BY DEF ListenersKnown
  <1>7. CallersFit'  BY DEF CallersFit
  <1>8. OneNotice'  BY DEF OneNotice, FlagsOK, Connections
  <1>9. LatestConnection'  BY DEF LatestConnection
  <1>10. HeldIsKept'  BY DEF HeldIsKept, CallersFit
  <1>11. NothingLostInTransfer'  BY DEF NothingLostInTransfer, Connected
  <1> QED  BY <1>1, <1>2, <1>3, <1>4, <1>5, <1>6, <1>7, <1>8, <1>9, <1>10, <1>11

-----------------------------------------------------------------------------
(* What sends packets.                                                     *)

LEMMA OwnerSendsKeeps ==
    ASSUME Inductive, OwnerSends
    PROVE  Inductive'
  <1> USE DEF Inductive, IInv, TypeOK
  <1>0. Sent  BY SendPacketSends DEF OwnerSends, SendLocked
  <1> USE <1>0 DEF Sent, OwnerSends, SendLocked
  <1>1. TypeOK'
    <2>1. FlagsOK'  BY DEF FlagsOK
    <2>2. StreamsOK'  BY DEF StreamsOK
    <2>3. QueuesOK'  BY DEF QueuesOK
    <2>4. LabelsOK'  BY DEF LabelsOK
    <2> QED  BY <2>1, <2>2, <2>3, <2>4
  <1>2. PublishedIsSignalled'  BY DEF PublishedIsSignalled
  <1>3. ThreadHasStream'  BY DEF ThreadHasStream, NoDisconnectFromIo
  <1>4. ReaderFits'  BY DEF ReaderFits
  <1>5. StreamsDiffer'  BY DEF StreamsDiffer
  <1>6. ListenersKnown'  BY DEF ListenersKnown
  <1>7. CallersFit'  BY DEF CallersFit
  <1>8. OneNotice'  BY DropKeepsNotice
  <1>9. LatestConnection'  BY DEF LatestConnection, OneNotice
  <1>10. HeldIsKept'  BY DEF HeldIsKept
  <1>11. NothingLostInTransfer'  OBVIOUS
  <1> QED  BY <1>1, <1>2, <1>3, <1>4, <1>5, <1>6, <1>7, <1>8, <1>9, <1>10, <1>11

LEMMA RedirectUnavailableKeeps ==
    ASSUME Inductive, RedirectUnavailable
    PROVE  Inductive'
  <1> USE DEF Inductive, IInv, TypeOK
  <1>0. Sent  BY SendPacketSends DEF RedirectUnavailable
  <1> USE <1>0 DEF Sent, RedirectUnavailable, At, IoUnchanged
  <1>1. TypeOK'
    <2>1. FlagsOK'  BY DEF FlagsOK
    <2>2. StreamsOK'  BY DEF StreamsOK
    <2>3. QueuesOK'  BY DEF QueuesOK
    <2>4. LabelsOK'  BY DEF LabelsOK, IoLabels, Kinds
    <2> QED  BY <2>1, <2>2, <2>3, <2>4
  <1>2. PublishedIsSignalled'  BY DEF PublishedIsSignalled
  <1>3. ThreadHasStream'  BY DEF ThreadHasStream, NoDisconnectFromIo
  <1>4. ReaderFits'  BY DEF ReaderFits
  <1>5. StreamsDiffer'  BY DEF StreamsDiffer
  <1>6. ListenersKnown'  BY DEF ListenersKnown
  <1>7. CallersFit'  BY DEF CallersFit
  <1>8. OneNotice'  BY DropKeepsNotice
  <1>9. LatestConnection'  BY DEF LatestConnection, OneNotice
  <1>10. HeldIsKept'  BY DEF HeldIsKept
  <1>11. NothingLostInTransfer'  OBVIOUS
  <1> QED  BY <1>1, <1>2, <1>3, <1>4, <1>5, <1>6, <1>7, <1>8, <1>9, <1>10, <1>11

LEMMA ReportFailedKeeps ==
    ASSUME Inductive, ReportFailed
    PROVE  Inductive'
  <1> USE DEF Inductive, IInv, TypeOK
  <1>0. Sent  BY SendPacketSends DEF ReportFailed
  <1> USE <1>0 DEF Sent, ReportFailed, At, IoUnchanged
  <1>1. TypeOK'
    <2>1. FlagsOK'  BY DEF FlagsOK
    <2>2. StreamsOK'  BY DEF StreamsOK
    <2>3. QueuesOK'  BY DEF QueuesOK
    <2>4. LabelsOK'  BY DEF LabelsOK, IoLabels, Kinds
    <2> QED  BY <2>1, <2>2, <2>3, <2>4
  <1>2. PublishedIsSignalled'  BY DEF PublishedIsSignalled
  <1>3. ThreadHasStream'  BY DEF ThreadHasStream, NoDisconnectFromIo
  <1>4. ReaderFits'  BY DEF ReaderFits
  <1>5. StreamsDiffer'  BY DEF StreamsDiffer
  <1>6. ListenersKnown'  BY DEF ListenersKnown
  <1>7. CallersFit'  BY DEF CallersFit
  <1>8. OneNotice'  BY DropKeepsNotice
  <1>9. LatestConnection'  BY DEF LatestConnection, OneNotice
  <1>10. HeldIsKept'  BY DEF HeldIsKept
  <1>11. NothingLostInTransfer'  OBVIOUS
  <1> QED  BY <1>1, <1>2, <1>3, <1>4, <1>5, <1>6, <1>7, <1>8, <1>9, <1>10, <1>11

\* A held packet is written, or the write fails and the connection ends.
LEMMA FlushKeeps ==
    ASSUME Inductive, Flush
    PROVE  Inductive'
  <1> USE DEF Inductive, IInv, TypeOK, IoUnchanged
  <1> DEFINE next == Head(held)
  <1>1. /\ io = "flush" /\ held # <<>> /\ ~broken
        /\ suspended' = FALSE /\ held' = Tail(held)
        /\ UNCHANGED <<accepted, deaf, primary, secondary, serverVars>> /\ IoUnchanged
    BY DEF Flush, FlushNext, HeldIsKept
  <1>2. /\ Tail(held) \in Seq(Nat) /\ Append(wire, next) \in Seq(Nat)
        /\ Append(wire, next) \o Tail(held) = wire \o held
    BY <1>1, FlushOne DEF QueuesOK
  <1>3. CASE /\ Wrote(primary)
             /\ wire' = Append(wire, next)
             /\ At("flush")
             /\ UNCHANGED <<broken, eventVars, stop>>
    <2> USE <1>1, <1>3 DEF Wrote, At
    <2> HIDE DEF next
    <2>1. FlagsOK' /\ StreamsOK'  BY DEF FlagsOK, StreamsOK
    <2>2. QueuesOK'  BY <1>2 DEF QueuesOK
    <2>3. LabelsOK'  BY DEF LabelsOK
    <2>4. PublishedIsSignalled' /\ ThreadHasStream'
      BY DEF PublishedIsSignalled, ThreadHasStream, NoDisconnectFromIo
    <2>5. ReaderFits' /\ StreamsDiffer'  BY DEF ReaderFits, StreamsDiffer
    <2>6. ListenersKnown' /\ CallersFit'  BY DEF ListenersKnown, CallersFit
    <2>7. OneNotice' /\ LatestConnection'  BY DEF OneNotice, LatestConnection
    <2>8. HeldIsKept'  BY DEF HeldIsKept
    <2>9. NothingLostInTransfer'  BY <1>2 DEF NothingLostInTransfer
    <2> QED  BY <2>1, <2>2, <2>3, <2>4, <2>5, <2>6, <2>7, <2>8, <2>9
  <1>4. CASE /\ up' = up \ {primary}
             /\ IF role = "secondary" \/ primary \in up
                THEN Drop("reader")
                ELSE UNCHANGED dropVars
             /\ broken' = TRUE
             /\ EndTransfer
             /\ UNCHANGED wire
    <2> USE <1>1, <1>4 DEF EndTransfer, ClearEvents, At, Drop
    <2>1. FlagsOK' /\ StreamsOK'  BY DEF FlagsOK, StreamsOK
    <2>2. QueuesOK'  BY <1>2 DEF QueuesOK
    <2>3. LabelsOK'  BY DEF LabelsOK, IoLabels, Kinds
    <2>4. PublishedIsSignalled' /\ ThreadHasStream'
      BY DEF PublishedIsSignalled, ThreadHasStream, NoDisconnectFromIo
    <2>5. ReaderFits' /\ StreamsDiffer'  BY DEF ReaderFits, StreamsDiffer
    <2>6. ListenersKnown' /\ CallersFit'  BY DEF ListenersKnown, CallersFit, ReaderFits
    <2>7. OneNotice'  BY DropKeepsNotice
    <2>8. LatestConnection'  BY DEF LatestConnection, CallersFit, OneNotice
    <2>9. HeldIsKept'  BY DEF HeldIsKept, CallersFit
    <2>10. NothingLostInTransfer'  BY DEF NothingLostInTransfer, Connected
    <2> QED  BY <2>1, <2>2, <2>3, <2>4, <2>5, <2>6, <2>7, <2>8, <2>9, <2>10
  <1> QED  BY <1>3, <1>4 DEF Flush, FlushNext

-----------------------------------------------------------------------------
(* The invariant.                                                          *)

\* Nothing changes.
LEMMA StutterKeeps ==
    ASSUME Inductive, UNCHANGED vars
    PROVE  Inductive'
  <1> USE DEF vars, Inductive, IInv, TypeOK
  <1>1. TypeOK'  BY DEF FlagsOK, StreamsOK, QueuesOK, LabelsOK
  <1>2. PublishedIsSignalled' /\ ThreadHasStream' /\ ReaderFits' /\ StreamsDiffer'
    BY DEF PublishedIsSignalled, ThreadHasStream, NoDisconnectFromIo, ReaderFits, StreamsDiffer
  <1>3. ListenersKnown' /\ CallersFit' /\ HeldIsKept'
    BY DEF ListenersKnown, CallersFit, HeldIsKept
  <1>4. OneNotice' /\ LatestConnection'
    BY DEF OneNotice, LatestConnection
  <1>5. NothingLostInTransfer'
    BY DEF NothingLostInTransfer, Connected
  <1> QED  BY <1>1, <1>2, <1>3, <1>4, <1>5

\* A session that was never connected.
LEMMA InitHolds == Init => Inductive
  <1> SUFFICES ASSUME Init PROVE Inductive  OBVIOUS
  <1> USE DEF Init
  <1>1. TypeOK
    <2>1. FlagsOK  BY DEF FlagsOK
    <2>2. StreamsOK  BY BoundAssumption DEF StreamsOK, Streams, NoStream
    <2>3. QueuesOK  BY DEF QueuesOK
    <2>4. LabelsOK  BY DEF LabelsOK, IoLabels, CallLabels, Kinds
    <2> QED  BY <2>1, <2>2, <2>3, <2>4 DEF TypeOK
  <1>2. PublishedIsSignalled /\ ThreadHasStream /\ ReaderFits /\ StreamsDiffer
    BY DEF PublishedIsSignalled, ThreadHasStream, NoDisconnectFromIo, ReaderFits, StreamsDiffer,
           NoStream
  <1>3. ListenersKnown /\ CallersFit /\ HeldIsKept
    BY DEF ListenersKnown, CallersFit, HeldIsKept
  <1>4. OneNotice /\ LatestConnection
    BY DEF OneNotice, LatestConnection
  <1>5. NothingLostInTransfer
    BY DEF NothingLostInTransfer
  <1> QED  BY <1>1, <1>2, <1>3, <1>4, <1>5 DEF Inductive, IInv

\* One case per action.
LEMMA StepKeeps == Inductive /\ [Next]_vars => Inductive'
  <1> SUFFICES ASSUME Inductive, [Next]_vars PROVE Inductive'  OBVIOUS
  <1>1. CASE OwnerSends \/ Cancel \/ GiveUp \/ Leave \/ Return \/ Disconnect \/ Connect
    BY <1>1, OwnerSendsKeeps, CancelKeeps, GiveUpKeeps, LeaveKeeps, ReturnKeeps,
       DisconnectKeeps, ConnectKeeps
  <1>2. CASE \E t \in {"operation", "receive"} : StartReader(t)
    BY <1>2, StartReaderKeeps
  <1>3. CASE \E c \in Callers : CallStep(c)
    BY <1>3, TakeNoticeKeeps, TakeConnectedKeeps, CloseStreamsKeeps, JoinKeeps, CallbackKeeps,
       ClearSessionKeeps DEF CallStep
  <1>4. CASE Open \/ Publish
    BY <1>4, OpenKeeps, PublishKeeps
  <1>5. CASE IoStep
    BY <1>5, LeaveLoopKeeps, TakeSecondaryEventKeeps, ReadFailsKeeps, OverKeeps, FinishKeeps,
       RefusedKeeps, DeliverKeeps, RedirectUnavailableKeeps, StartSecondaryConnectionKeeps,
       SuspendKeeps, ForceSendKeeps, StopSecondaryKeeps, StopJoinKeeps, StopClearKeeps,
       AbortDropKeeps, AbortNotifyKeeps, ReportFailedKeeps, JoinHeldKeeps, PromoteKeeps,
       FlushKeeps, FlushEndKeeps DEF IoStep
  <1>6. CASE \E k \in Kinds : Receive(k)
    BY <1>6, ReceiveKeeps
  <1>7. CASE SecStep
    BY <1>7, SecConnectKeeps, SecLostKeeps, SecStoppedKeeps, SecChallengeKeeps, SecAnswerKeeps,
       SecPushKeeps, SecSignalKeeps DEF SecStep
  <1>8. CASE \E k \in Control : SecReceive(k)
    BY <1>8, SecReceiveKeeps
  <1>9. CASE DoubleJoin
    BY <1>9, DoubleJoinKeeps
  <1>10. CASE UNCHANGED vars
    BY <1>10, StutterKeeps
  <1> QED
    BY <1>1, <1>2, <1>3, <1>4, <1>5, <1>6, <1>7, <1>8, <1>9, <1>10 DEF Next, Dead

\* The inductive invariant holds in every state of every behaviour.
THEOREM InductiveHolds == Spec => []Inductive
  <1>1. Init => Inductive
    BY InitHolds
  <1>2. Inductive /\ [Next]_vars => Inductive'
    BY StepKeeps
  <1> QED  BY <1>1, <1>2, PTL DEF Spec

\* Types, the wake-up of a reader about to block, the stream that the reader and the
\* secondary thread rely on, who listens, who owes a callback, and what they rest on:
\* PublishSecondary*, TakeSecondaryEvent, StopSecondaryConnection,
\* CompleteConnectionTransfer, CancelPendingIo.
THEOREM Invariance == Spec => []IInv
  <1>1. Inductive => IInv
    BY DEF Inductive
  <1> QED  BY <1>1, InductiveHolds, PTL

\* The packets SendPacket accepted are written in the order of its calls, on whichever
\* stream, none lost and none twice, until a flush fails and the connection ends.
THEOREM NothingLostInTransferHolds == Spec => []NothingLostInTransfer
  <1>1. Inductive => NothingLostInTransfer
    BY DEF Inductive
  <1> QED  BY <1>1, InductiveHolds, PTL

\* One disconnected callback for a connection, whichever of the two callers of
\* CancelPendingIo took it, AbortConnectionFromIo's notices included.
THEOREM AnnouncedOnceHolds == Spec => []AnnouncedOnce
  <1>1. Inductive => AnnouncedOnce
    <2> SUFFICES ASSUME Inductive PROVE AnnouncedOnce  OBVIOUS
    <2> USE DEF Inductive, IInv, OneNotice, LatestConnection, CallersFit
    <2>1. \A c \in Callers : at[c] = "callback" => seen[c] \subseteq due
      OBVIOUS
    <2>2. at["owner"] = "clear" => due \subseteq silent
      OBVIOUS
    <2>3. at["reader"] = "clear" => due \subseteq silent \cup seen["owner"]
      OBVIOUS
    <2> QED  BY <2>1, <2>2, <2>3 DEF AnnouncedOnce
  <1> QED  BY <1>1, InductiveHolds, PTL

Listened == Len(wire') > Len(wire) => primary \notin deaf

\* A packet goes only to a server that listens: SendPacket writes on a stream that has not
\* suspended the session, and FlushHeldOutboundPackets on one whose server ordered it,
\* which ListenersKnown follows from the order's receipt, on either stream, through the
\* queue of the secondary thread, its join and the promotion.
THEOREM OnlyToListenersHolds == Spec => OnlyToListeners
  <1>1. Inductive /\ [Next]_vars => [Listened]_vars
    <2> SUFFICES ASSUME Inductive, Next, Len(wire') > Len(wire) PROVE primary \notin deaf
      BY DEF Listened
    <2>1. wire' # wire /\ wire' # <<>>
      BY DEF Inductive, IInv, TypeOK, QueuesOK
    <2>2. ListenersKnown
      BY DEF Inductive, IInv
    <2>3. CASE OwnerSends \/ RedirectUnavailable \/ ReportFailed
      <3>1. connected # Nobody /\ ~suspended
        BY <2>1, <2>3 DEF OwnerSends, RedirectUnavailable, ReportFailed, SendPacket, SendOrHold,
           Hold, Connected
      <3> QED  BY <2>2, <3>1 DEF ListenersKnown
    <2>4. CASE Flush
      BY <2>2, <2>4 DEF Flush, FlushNext, ListenersKnown
    <2>5. ~(Cancel \/ GiveUp \/ Leave \/ Return \/ Disconnect \/ Connect)
      BY <2>1 DEF Cancel, GiveUp, Leave, Return, Disconnect, Connect, OwnUnchanged
    <2>6. ~(\E t \in {"operation", "receive"} : StartReader(t))
      BY <2>1 DEF StartReader, OwnUnchanged
    <2>7. ~(\E c \in Callers : CallStep(c))
      BY <2>1 DEF CallStep, TakeNotice, TakeConnected, CloseStreams, Join, Callback, ClearSession
    <2>8. ~(Open \/ Publish)
      BY <2>1 DEF Open, Publish
    <2>9. ~(LeaveLoop \/ TakeSecondaryEvent \/ ReadFails \/ Over \/ Finish \/ Refused \/ Deliver)
      BY <2>1 DEF LeaveLoop, TakeSecondaryEvent, ReadFails, Over, Finish, Refused, Deliver,
         NothingSent
    <2>10. ~(StartSecondaryConnection \/ Suspend \/ ForceSend)
      BY <2>1 DEF StartSecondaryConnection, Suspend, ForceSend, NothingSent
    <2>11. ~(StopSecondary \/ StopJoin \/ StopClear \/ AbortDrop \/ AbortNotify)
      BY <2>1 DEF StopSecondary, StopJoin, StopClear, AbortDrop, AbortNotify, NothingSent
    <2>12. ~(JoinHeld \/ Promote \/ FlushEnd)
      BY <2>1 DEF JoinHeld, Promote, FlushEnd, NothingSent
    <2>13. ~(\E k \in Kinds : Receive(k))
      BY <2>1 DEF Receive
    <2>14. ~SecStep /\ ~(\E k \in Control : SecReceive(k))
      BY <2>1 DEF SecStep, SecConnect, SecLost, SecStopped, SecChallenge, SecAnswer, SecReceive,
         SecPacket, SecPush, SecSignal
    <2>15. ~DoubleJoin /\ ~Dead
      BY <2>1 DEF DoubleJoin, Dead, vars
    <2> QED
      BY <2>3, <2>4, <2>5, <2>6, <2>7, <2>8, <2>9, <2>10, <2>11, <2>12, <2>13, <2>14, <2>15
         DEF Next, IoStep
  <1> QED  BY <1>1, InductiveHolds, PTL DEF Spec, OnlyToListeners, Listened
=============================================================================
