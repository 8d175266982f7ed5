---------------------------- MODULE FrameChannel ----------------------------
(***************************************************************************)
(* What one direction of a connection promises: frames arrive whole and in *)
(* the order they were sent.  A frame may be refused; the receiver then    *)
(* ends the connection or takes the frame after it.                        *)
(***************************************************************************)
EXTENDS Sequences

CONSTANT Frames

VARIABLES
  queue,       \* frames sent and not yet taken
  delivered,   \* frames handed to the receiver
  ended        \* the receiver has stopped

ChannelInit == queue = <<>> /\ delivered = <<>> /\ ended = FALSE

Put(f) ==
  /\ queue' = Append(queue, f)
  /\ UNCHANGED <<delivered, ended>>

Deliver ==
  /\ ~ended /\ queue # <<>>
  /\ delivered' = Append(delivered, Head(queue)) /\ queue' = Tail(queue)
  /\ UNCHANGED ended

Refuse ==
  /\ ~ended /\ queue # <<>>
  /\ queue' = Tail(queue) /\ ended' \in BOOLEAN
  /\ UNCHANGED delivered

End ==
  /\ ended' = TRUE
  /\ UNCHANGED <<queue, delivered>>

ChannelNext == (\E f \in Frames : Put(f)) \/ Deliver \/ Refuse \/ End

ChannelSpec == ChannelInit /\ [][ChannelNext]_<<queue, delivered, ended>>

=============================================================================
