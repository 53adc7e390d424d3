------------------------------- MODULE PeerIO -------------------------------
(***************************************************************************)
(* writeToPeer() and readFromPeer() of                                     *)
(* blueth/concurrency/AsyncEventLoop.hpp: what the callbacks of the event  *)
(* loop call to move bytes between a buffer and a non-blocking socket.     *)
(***************************************************************************)
EXTENDS IOBufferOps

\* writeToPeer() when send() took something, however little: the start offset
\* advances by all of the data, which is also what is returned.
writeToPeer(b) == modifyStartOffset(b, getDataSize(b))

\* The most that readFromPeer() asks for.
ReadRoom(b) == getAvailableSpace(b)

\* Mutant: the end offset counts what was asked for.
CountsTheRoom(b, got) ==
    modifyEndOffset([b EXCEPT !.mem = Copy(@, b.start_offset, got)], getAvailableSpace(b))

\* readFromPeer() when recv() delivers got: the bytes are stored from the
\* start of the data on, and the end offset advances by their number.
readFromPeer(b, got) ==
    modifyEndOffset([b EXCEPT !.mem = Copy(@, b.start_offset, got)], Len(got))
=============================================================================
