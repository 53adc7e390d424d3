---------------------------- MODULE NetworkStream ----------------------------
(***************************************************************************)
(* The blocking stream clients blueth/net/SyncNetworkStreamClient.hpp and  *)
(* SyncNetworkStreamClientSSL.hpp, which implement the interface of        *)
(* blueth/net/NetworkStream.hpp with the same code around recv/send and    *)
(* wolfSSL_read/wolfSSL_write.  A client is a record; the operators are its*)
(* member functions, as functions from records to records.  Connection and *)
(* HTTPProxy use them.                                                     *)
(***************************************************************************)
EXTENDS IOBufferOps

CONSTANTS
    Fds,        \* the descriptor numbers of the process
    NoBuffer    \* the null pointer of a std::unique_ptr<IOBuffer>

ASSUME BufferAssumption == NoBuffer \notin Buffer

StreamTypes == {"SyncStream", "SSLSyncStream"}

\* What a callback does to the buffer it is shown: nothing, or clear() it.
Callbacks == {"none", "clears"}

Stream == [endpoint_fd : Fds, is_connected : BOOLEAN,
           io_buffer : Buffer \cup {NoBuffer},
           read_callback : Callbacks, write_callback : Callbacks]

-----------------------------------------------------------------------------
(* Construction.  The calls that can fail, in the order of the code; the   *)
(* constructor throws at the first that does.  The last is the allocation  *)
(* of the buffer.                                                          *)

Stages(type) ==
    IF type = "SyncStream" THEN <<"gethostbyname", "protocol", "socket", "connect", "create">>
    ELSE <<"socket", "inet_pton", "connect", "wolfSSL_Init", "wolfSSL_CTX_new",
           "load_verify_locations", "wolfSSL_new", "wolfSSL_set_fd", "wolfSSL_connect", "create">>

\* The constructor that throws at stage i leaves the descriptor open: it was
\* opened, this stage does not close it, and no destructor runs.
LeavesOpen(type, i) == Stages(type)[i] \in {"inet_pton", "connect", "create"}

Connected(fd, size) ==
    [endpoint_fd |-> fd, is_connected |-> TRUE,
     io_buffer |-> create(size), read_callback |-> "none", write_callback |-> "none"]

-----------------------------------------------------------------------------
(* Reading.  n is read_length, got what recv (or wolfSSL_read) delivered.  *)

CanRead(s) == s.io_buffer # NoBuffer /\ s.is_connected

\* The capacity that streamRead() asks for before it receives.
ReadSize(s, n) == Plus(s.io_buffer.capacity, n)
NeedsSpace(s, n) == n > getAvailableSpace(s.io_buffer)

Reserved(s, n) ==
    IF NeedsSpace(s, n) THEN [s EXCEPT !.io_buffer = reserve(@, ReadSize(s, n))] ELSE s

\* A write callback may be shown a null pointer; it leaves that alone.
RunCallback(s, callback) ==
    IF callback = "clears" /\ s.io_buffer # NoBuffer
    THEN [s EXCEPT !.io_buffer = clear(@)] ELSE s

\* streamRead() that receives got, which is empty at the end of the stream.
streamRead(s, n, got) ==
    RunCallback([Reserved(s, n) EXCEPT !.io_buffer = appendRawBytes(@, got)], s.read_callback)

\* streamRead() whose recv fails: the buffer has grown, nothing else.
streamReadFails(s, n) == Reserved(s, n)

-----------------------------------------------------------------------------
(* Writing needs no buffer.  It hands the data to send() and returns what  *)
(* that returns, a short count and an error included; the callback runs    *)
(* whatever that was, and whether or not there is a buffer.                *)

CanWrite(s)    == s.is_connected
streamWrite(s) == RunCallback(s, s.write_callback)

-----------------------------------------------------------------------------
(* The buffer and its loan.                                                *)

flushBuffer(s)    == [s EXCEPT !.io_buffer = clear(@)]
setIOBuffer(s, b) == [s EXCEPT !.io_buffer = b]

\* Mutant: the caller gets the buffer, and the stream keeps it.
KeepsLentBuffer(s) == s

\* getIOBuffer() returns s.io_buffer, and leaves the stream without one.
getIOBuffer(s) == [s EXCEPT !.io_buffer = NoBuffer]

setReadCallback(s, callback)  == [s EXCEPT !.read_callback = callback]
setWriteCallback(s, callback) == [s EXCEPT !.write_callback = callback]

\* Mutant: is_connected_ is not reset.
StaysConnected(s) == s

\* closeConnection() after a close() that succeeded.
closeConnection(s) == [s EXCEPT !.is_connected = FALSE]
=============================================================================
