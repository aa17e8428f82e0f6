---------------------------- MODULE MCSendQueue ----------------------------
(***************************************************************************)
(* Instances of SendQueue for TLC.                                         *)
(***************************************************************************)
EXTENDS SendQueue

\* The elements that MaxMsgs messages can be cut into.
MCElems == [more : BOOLEAN, len : 1 .. MaxChunk,
            payload : (1 .. MaxMsgs) \X UNION {1 .. len : len \in MsgLens}]

Channel == INSTANCE SendChannel
           WITH Capacity <- Depth, Elem <- MCElems, accepted <- pushed, sent <- flushed

\* The queue with its send thread implements the bounded FIFO: what is
\* accepted is handed to the sockets in order, exactly once, and in the end.
ImplementsChannel == Channel!Spec
==============================================================================
