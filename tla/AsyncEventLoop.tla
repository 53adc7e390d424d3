--------------------------- MODULE AsyncEventLoop ---------------------------
(***************************************************************************)
(* blueth/concurrency/AsyncEventLoop.hpp: a single-threaded server loop on *)
(* epoll.  Every watched descriptor carries a pointer to a heap-allocated  *)
(* PeerStateHolder; epoll_wait hands out a batch of such pointers, and the *)
(* loop calls the registered callback for each and then either changes the *)
(* events the peer is watched for or closes the descriptor and deletes the *)
(* holder.                                                                 *)
(*                                                                         *)
(* The loop is one process; the peers and the kernel are another: between  *)
(* any two events of a batch connections arrive or are withdrawn, data     *)
(* arrives and peers hang up.  Descriptor numbers and heap addresses are   *)
(* reused as soon as they are free, by the very batch that freed them.     *)
(*                                                                         *)
(* A user callback is what it can do to the loop: it returns the events it *)
(* wants next (FDStatus), it consumes input or fills the output, or it     *)
(* throws.  A callback does not close the descriptor it is given.          *)
(***************************************************************************)
EXTENDS Naturals, FiniteSets

CONSTANTS
    Peers,          \* descriptors that accept() may return
    Listener,       \* socket_'s descriptor
    Addresses,      \* heap addresses of PeerStateHolder objects
    ListenerHolder, \* the address of the one the constructor allocates
    MaxEvents,      \* max_events_supported_
    MaxPending,     \* bound: connections that wait to be accepted
    None            \* "not watched"

Fds     == Peers \cup {Listener}
Holders == Addresses \cup {ListenerHolder}
Events  == {"in", "out"}                 \* EPOLLIN, EPOLLOUT
Kinds   == {"accept", "read", "write"}   \* EventType

ASSUME LoopAssumption ==
    /\ Listener \notin Peers
    /\ ListenerHolder \notin Addresses
    /\ MaxEvents \in Nat \ {0}
    /\ MaxPending \in Nat
    /\ None \notin [ptr : Holders, mask : SUBSET Events]

VARIABLES
    pc,         \* where startEventloop is
    callback,   \* the three members on_<kind>_callback_: the kind of event the
                \* stored callback was registered for, or "unset"
    watch,      \* the epoll set: watch[fd] is None or [ptr, mask]
    open,       \* the peer descriptors the process has open
    holder,     \* holder[p] = [fd, alive]: the object at address p
    batch,      \* events_[peer_index .. nready - 1]: the entries not handled yet
    ready,      \* kernel: what each peer descriptor is ready for
    pending,    \* kernel: connections that wait to be accepted
    served,     \* history: the last callback that ran, and for what
    lost,       \* history: holders of peers whose accept callback threw
    accepted    \* history: descriptors accepted since epoll_wait filled the batch

history == <<served, lost, accepted>>
vars    == <<pc, callback, watch, open, holder, batch, ready, pending, history>>

Unserved == [event |-> "none", by |-> "none", fd |-> None]

Init ==
    /\ pc = "new"
    /\ callback = [k \in Kinds |-> "unset"]
    /\ watch = [fd \in Fds |-> None]
    /\ open = {}
    /\ holder = [p \in Holders |-> [fd |-> Listener, alive |-> FALSE]]
    /\ batch = {}
    /\ ready = [fd \in Peers |-> {}]
    /\ pending = 0
    /\ served = Unserved
    /\ lost = {}
    /\ accepted = {}

-----------------------------------------------------------------------------
(* The constructor.  The calls that can fail, in the order of the code:    *)
(* what the Socket member does, the epoll descriptor, the two allocations, *)
(* the entry of the listener, the array of events.                         *)

Stages == {"socket", "epoll_create1", "new PeerStateHolder", "new PeerState",
           "epoll_ctl", "calloc"}

Construct ==
    /\ pc = "new"
    /\ pc' = "idle"
    /\ watch' = [watch EXCEPT ![Listener] = [ptr |-> ListenerHolder, mask |-> {"in"}]]
    /\ holder' = [holder EXCEPT ![ListenerHolder].alive = TRUE]
    /\ UNCHANGED <<callback, open, batch, ready, pending, history>>

\* The members that are there are destroyed, the loop's own destructor does
\* not run: behind epoll_create1 the epoll descriptor stays open ("halfbuilt",
\* its set empty, since ~Socket closes the listener), and once it was
\* allocated so does the holder.
ConstructThrows(stage) ==
    /\ pc = "new"
    /\ pc' = IF stage \in {"socket", "epoll_create1"} THEN "destroyed" ELSE "halfbuilt"
    /\ holder' = IF stage \in {"new PeerState", "epoll_ctl", "calloc"}
                 THEN [holder EXCEPT ![ListenerHolder].alive = TRUE] ELSE holder
    /\ UNCHANGED <<callback, watch, open, batch, ready, pending, history>>

\* The loop object exists.
Living == pc \notin {"new", "halfbuilt", "destroyed"}

-----------------------------------------------------------------------------
(* Registering callbacks and starting the loop.                            *)

\* The member a callback is stored in.
SlotFor(kind) == CASE kind = "read"   -> "write"
                   [] kind = "write"  -> "read"
                   [] kind = "accept" -> "accept"

\* Before the loop runs, after it has returned or thrown, or as the last thing
\* a callback does.  (An argument that is no EventType throws and changes
\* nothing.  A callback that replaces itself destroys the std::function that
\* is being executed; that is left out.)
registerCallbackForEvent(kind) ==
    /\ Living
    /\ callback' = [callback EXCEPT ![SlotFor(kind)] = kind]
    /\ UNCHANGED <<pc, watch, open, holder, batch, ready, pending, history>>

\* startEventloop() checks nothing; it may be called again after it returned
\* or threw.
startEventloop ==
    /\ pc \in {"idle", "returned", "threw"}
    /\ pc' = "wait"
    /\ UNCHANGED <<callback, watch, open, holder, batch, ready, pending, history>>

-----------------------------------------------------------------------------
(* epoll_wait, level triggered: the entries of watched descriptors that are*)
(* ready for an event of their mask, or have hung up.                      *)

ReadyFor(fd) == IF fd = Listener THEN IF pending > 0 THEN {"in"} ELSE {} ELSE ready[fd]

Reported(fd) == ReadyFor(fd) \cap (watch[fd].mask \cup {"hup"})

ReadyFds == {fd \in Fds : watch[fd] # None /\ Reported(fd) # {}}

EpollReturns ==
    /\ pc = "wait"
    /\ ReadyFds # {}
    /\ \E S \in SUBSET ReadyFds :
         /\ S # {} /\ Cardinality(S) <= MaxEvents
         /\ S = ReadyFds \/ Cardinality(S) = MaxEvents
         /\ batch' = {[ptr |-> watch[fd].ptr, events |-> Reported(fd)] : fd \in S}
    /\ accepted' = {}
    /\ pc' = "dispatch"
    /\ UNCHANGED <<callback, watch, open, holder, ready, pending, served, lost>>

\* if (!nready) break;
EpollTimesOut ==
    /\ pc = "wait"
    /\ ReadyFds = {}
    /\ pc' = "returned"
    /\ UNCHANGED <<callback, watch, open, holder, batch, ready, pending, history>>

\* A signal makes epoll_wait return -1, which is treated as any other error.
EpollInterrupted ==
    /\ pc = "wait"
    /\ pc' = "threw"
    /\ UNCHANGED <<callback, watch, open, holder, batch, ready, pending, history>>

-----------------------------------------------------------------------------
(* Handling one entry of the batch.  The order in the batch is the         *)
(* kernel's, so any entry may be next.                                     *)

\* Mutant: peer_index is not advanced.
ContinueWithSame(e) == batch' = batch /\ pc' = "dispatch"

\* Mutant: break for continue.
BreakAfterOne(e) == batch' = {} /\ pc' = "wait"

Continue(e) ==
    /\ batch' = batch \ {e}
    /\ pc' = IF batch = {e} THEN "wait" ELSE "dispatch"

\* An exception leaves startEventloop; the rest of the batch is forgotten.
Throw == batch' = {} /\ pc' = "threw"

\* Calling an empty std::function throws.
\* (Mutant: the callbacks are called unchecked.)
CallableUnchecked(slot) == TRUE
Callable(slot) == callback[slot] # "unset"

IsListener(e) == holder[e.ptr].fd = Listener

\* accept() finds no connection any more.
AcceptAgain(e) ==
    /\ IsListener(e)
    /\ pending = 0
    /\ Continue(e)
    /\ UNCHANGED <<callback, watch, open, holder, ready, pending, history>>

\* accept() fails otherwise: no descriptor is left, or the connection was
\* aborted in the meantime.
AcceptFails(e) ==
    /\ IsListener(e)
    /\ Throw
    /\ UNCHANGED <<callback, watch, open, holder, ready, pending, history>>

\* A new peer: descriptor, holder, callback, and whatever the callback wants
\* (even nothing) as its mask.
AcceptPeer(e, fd, p, status) ==
    /\ IsListener(e)
    /\ pending > 0
    /\ fd \in Peers \ open
    /\ ~ holder[p].alive
    /\ Callable("accept")
    /\ pending' = pending - 1
    /\ open' = open \cup {fd}
    /\ ready' = [ready EXCEPT ![fd] = {"out"}]
    /\ holder' = [holder EXCEPT ![p] = [fd |-> fd, alive |-> TRUE]]
    /\ watch' = [watch EXCEPT ![fd] = [ptr |-> p, mask |-> status]]
    /\ served' = [event |-> "accept", by |-> callback["accept"], fd |-> fd]
    /\ accepted' = accepted \cup {fd}
    /\ Continue(e)
    /\ UNCHANGED <<callback, lost>>

\* The accept callback throws, or is not set: the descriptor is open and the
\* holder allocated, and nothing refers to either.
AcceptThrows(e, fd, p) ==
    /\ IsListener(e)
    /\ pending > 0
    /\ fd \in Peers \ open
    /\ ~ holder[p].alive
    /\ pending' = pending - 1
    /\ open' = open \cup {fd}
    /\ ready' = [ready EXCEPT ![fd] = {"out"}]
    /\ holder' = [holder EXCEPT ![p] = [fd |-> fd, alive |-> TRUE]]
    /\ lost' = lost \cup {p}
    /\ accepted' = accepted \cup {fd}
    /\ Throw
    /\ UNCHANGED <<callback, watch, served>>

\* EPOLLIN goes before EPOLLOUT; an entry with neither is passed over.
SlotOf(e) == IF "in" \in e.events THEN "read"
             ELSE IF "out" \in e.events THEN "write" ELSE "none"

\* What a callback may leave of what its descriptor is ready for: it consumes
\* input and fills the output; the end of the stream stays readable.
AfterIO(fd) == {r \in SUBSET ready[fd] :
                    "hup" \in ready[fd] => {"in", "hup"} \subseteq r}

\* Mutants: one of the two releases is forgotten.
DeleteWithoutClose(p) ==
    /\ holder' = [holder EXCEPT ![p].alive = FALSE]
    /\ UNCHANGED <<open, watch, ready>>

CloseWithoutDelete(p) ==
    LET fd == holder[p].fd
    IN  /\ open' = open \ {fd}
        /\ watch' = [watch EXCEPT ![fd] = None]
        /\ ready' = [ready EXCEPT ![fd] = {}]
        /\ UNCHANGED holder

\* close() takes the descriptor out of the epoll set; the holder is deleted.
ClosePeer(p) ==
    LET fd == holder[p].fd
    IN  /\ open' = open \ {fd}
        /\ watch' = [watch EXCEPT ![fd] = None]
        /\ holder' = [holder EXCEPT ![p].alive = FALSE]
        /\ ready' = [ready EXCEPT ![fd] = {}]

\* The callback returns status: nothing wanted ends the connection, anything
\* else becomes the mask.
HandlePeer(e, status) ==
    LET fd == holder[e.ptr].fd
    IN  /\ ~ IsListener(e)
        /\ SlotOf(e) # "none"
        /\ Callable(SlotOf(e))
        /\ served' = [event |-> SlotOf(e), by |-> callback[SlotOf(e)], fd |-> fd]
        /\ IF status = {}
           THEN ClosePeer(e.ptr)
           ELSE /\ watch' = [watch EXCEPT ![fd] = [ptr |-> e.ptr, mask |-> status]]
                /\ \E r \in AfterIO(fd) : ready' = [ready EXCEPT ![fd] = r]
                /\ UNCHANGED <<open, holder>>
        /\ Continue(e)
        /\ UNCHANGED <<callback, pending, lost, accepted>>

\* The callback throws, or is not set (std::bad_function_call).
HandlerThrows(e) ==
    /\ ~ IsListener(e)
    /\ SlotOf(e) # "none"
    /\ Throw
    /\ UNCHANGED <<callback, watch, open, holder, ready, pending, history>>

\* EPOLLHUP or EPOLLERR alone matches no branch.
PassOver(e) ==
    /\ ~ IsListener(e)
    /\ SlotOf(e) = "none"
    /\ Continue(e)
    /\ UNCHANGED <<callback, watch, open, holder, ready, pending, history>>

Handle(e) ==
    \/ AcceptAgain(e) \/ AcceptFails(e)
    \/ \E fd \in Peers, p \in Addresses :
          AcceptThrows(e, fd, p) \/ \E status \in SUBSET Events : AcceptPeer(e, fd, p, status)
    \/ \E status \in SUBSET Events : HandlePeer(e, status)
    \/ HandlerThrows(e)
    \/ PassOver(e)

Dispatch == pc = "dispatch" /\ \E e \in batch : Handle(e)

\* ~AsyncEpollEventLoop and ~Socket: the epoll set and the listener are gone,
\* the holders of the peers that are still connected are not deleted.
Destroy ==
    /\ pc \in {"idle", "returned", "threw"}
    /\ pc' = "destroyed"
    /\ watch' = [fd \in Fds |-> None]
    /\ pending' = 0
    /\ UNCHANGED <<callback, open, holder, batch, ready, history>>

-----------------------------------------------------------------------------
(* Kernel and peers.                                                       *)

Connect ==
    /\ Living
    /\ pending < MaxPending
    /\ pending' = pending + 1
    /\ UNCHANGED <<pc, callback, watch, open, holder, batch, ready, history>>

ConnectionWithdrawn ==
    /\ pending > 0
    /\ pending' = pending - 1
    /\ UNCHANGED <<pc, callback, watch, open, holder, batch, ready, history>>

BecomesReady(fd, r) ==
    /\ fd \in open
    /\ ready' = [ready EXCEPT ![fd] = @ \cup r]
    /\ UNCHANGED <<pc, callback, watch, open, holder, batch, pending, history>>

\* Data arrives; the send buffer drains; the peer is gone for good.
PeerStep(fd) == \E r \in {{"in"}, {"out"}, {"in", "out", "hup"}} : BecomesReady(fd, r)

Environment == Connect \/ ConnectionWithdrawn \/ \E fd \in Peers : PeerStep(fd)

\* Nothing happens to a loop that is gone.
Gone == pc \in {"destroyed", "halfbuilt"} /\ UNCHANGED vars

Next ==
    \/ Construct \/ \E stage \in Stages : ConstructThrows(stage)
    \/ \E kind \in Kinds : registerCallbackForEvent(kind)
    \/ startEventloop
    \/ EpollReturns \/ EpollTimesOut \/ EpollInterrupted
    \/ Dispatch
    \/ Destroy
    \/ Environment
    \/ Gone

Spec == Init /\ [][Next]_vars

\* epoll_wait() returns with the entry of this descriptor.
ReportsOn(fd) ==
    /\ watch[fd] # None
    /\ EpollReturns
    /\ \E e \in batch' : e.ptr = watch[fd].ptr

\* A started loop keeps running: epoll_wait comes back and entries are handled.
\* When more descriptors are ready than the batch has room for, successive
\* calls of epoll_wait go round through them: one that is ready whenever
\* epoll_wait is called is reported again and again.
Fairness ==
    /\ WF_vars(EpollReturns \/ EpollTimesOut) /\ WF_vars(Dispatch)
    /\ \A fd \in Fds : SF_vars(ReportsOn(fd))

FairSpec == Spec /\ Fairness

-----------------------------------------------------------------------------
(* Properties                                                              *)

\* The variables keep their types.
TypeOK ==
    /\ pc \in {"new", "halfbuilt", "idle", "wait", "dispatch", "returned", "threw", "destroyed"}
    /\ callback \in [Kinds -> Kinds \cup {"unset"}]
    /\ watch \in [Fds -> {None} \cup [ptr : Holders, mask : SUBSET Events]]
    /\ open \subseteq Peers
    /\ holder \in [Holders -> [fd : Fds, alive : BOOLEAN]]
    /\ batch \subseteq [ptr : Holders, events : SUBSET (Events \cup {"hup"})]
    /\ ready \in [Peers -> SUBSET (Events \cup {"hup"})]
    /\ pending \in 0 .. MaxPending
    /\ lost \subseteq Addresses /\ accepted \subseteq Peers
    /\ served \in [event : Kinds \cup {"none"}, by : Kinds \cup {"none"}, fd : Fds \cup {None}]

\* No entry that is still to be handled points to a deleted holder, although
\* earlier entries of the same batch delete holders and their descriptors and
\* addresses are reused at once: the holder is alive, its descriptor is
\* watched, and through this very holder; and no two entries share one.
NoDanglingEvent ==
    /\ \A e \in batch :
         /\ holder[e.ptr].alive
         /\ watch[holder[e.ptr].fd] # None
         /\ watch[holder[e.ptr].fd].ptr = e.ptr
    /\ \A d, e \in batch : d.ptr = e.ptr => d = e

\* A watched descriptor is open and leads to a live holder that names it, so
\* EPOLL_CTL_ADD never meets a watched descriptor, EPOLL_CTL_MOD always does,
\* and close() hits the descriptor of the peer that is being served.
WatchedMeansOwned ==
    \A fd \in Fds : watch[fd] # None =>
        /\ holder[watch[fd].ptr].alive
        /\ holder[watch[fd].ptr].fd = fd
        /\ fd = Listener \/ fd \in open

\* Nothing is leaked while the loop lives, but what a throwing accept
\* callback leaves behind: every open descriptor and every live holder
\* belongs to a watched peer.
OwnedMeansWatched ==
    Living =>
        /\ \A p \in Holders \ lost : holder[p].alive =>
               watch[holder[p].fd] # None /\ watch[holder[p].fd].ptr = p
        /\ \A fd \in open : watch[fd] # None \/ \E p \in lost : holder[p].fd = fd

\* Handling an entry reaches the connection that epoll_wait reported and no
\* later one: whatever was closed and accepted since, no entry that is still
\* to be handled leads to a connection that was accepted after the batch was
\* filled, with the number of a closed one or the address of its holder.
EventsMeetTheirConnections == \A e \in batch : holder[e.ptr].fd \notin accepted

\* A peer that from some time on is always watched for input and has some,
\* while the loop keeps running, is served again and again: neither other
\* peers nor a backlog of connections shut it out, even when there are more
\* ready descriptors than a batch has room for.
ReadablePeerIsServed ==
    \A fd \in Peers :
       \/ []<>~ (/\ pc \in {"wait", "dispatch"}
                 /\ watch[fd] # None /\ "in" \in Reported(fd))
       \/ []<><<\E e \in batch, status \in SUBSET Events :
                   holder[e.ptr].fd = fd /\ HandlePeer(e, status)>>_vars

\* "Register the callback for the specific event": the callback that runs is
\* the one that was registered for what happened.
CallbackMatchesEvent == served.by = served.event
=============================================================================
