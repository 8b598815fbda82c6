------------------------------ MODULE Scheduler ------------------------------
(***************************************************************************)
(* The path scheduler of the QED extension, at one endpoint: the set of    *)
(* paths, built from the addresses of both ends, and the choice of a path  *)
(* for every packet, first round robin and later by weight.                *)
(*                                                                         *)
(* Nothing here is protected by a mutex.  The session's run loop writes    *)
(* packets and handles ADDR_MOD and OWD_ACK frames; modeSelectionTimer,    *)
(* measurePathsRunner and weighPathsRunner are goroutines of their own,    *)
(* and whoever created the session sets scheduler.session.  A step is the  *)
(* code between two points where another goroutine can make a difference.  *)
(*                                                                         *)
(* A path ID (a CRC of both addresses) is the pair of addresses.  Whether  *)
(* a path's delay is below the average is left open.  A net.Addr is a      *)
(* pointer: obj numbers the allocated addresses.                           *)
(***************************************************************************)
EXTENDS Integers, Sequences, FiniteSets, Functions

CONSTANTS
    Locals,      \* localAddrs, found by the AddressHelper
    Remotes,     \* the addresses the peer may announce
    IPv6,        \* those of both that are IPv6 addresses
    MaxWeight,   \* 1000
    IsClient,    \* the client learns its session after the handshake only
    Removals,    \* whether the peer also withdraws addresses
    MaxFrames    \* bound: the number of ADDR_MOD frames received

\* Path zero, from the connection's own socket to the peer, has ID 0.
PathZero == <<"pconn", "peer">>

ASSUME SchedulerAssumption ==
    /\ MaxWeight \in Nat \ {0}
    /\ IsClient \in BOOLEAN /\ Removals \in BOOLEAN
    /\ MaxFrames \in Nat
    /\ IsFiniteSet(Locals) /\ IsFiniteSet(Remotes)
    /\ PathZero \notin Locals \X Remotes

VARIABLES
    session,     \* whether s.session is set
    isActive,    \* isActive
    mode,        \* mode
    paths,       \* paths: path ID -> [obj (of remote), weight]
    pathIds,     \* pathIds
    lastPath,    \* lastPath, an index into pathIds
    remoteAddrs, \* remoteAddrs
    total,       \* totalPathWeight
    writing,     \* whether the run loop is in Write's loop
    runner,      \* weighPathsRunner: pc, and the paths its loop has yet to visit
    allocated,   \* number of net.Addr allocated while handling ADDR_MOD frames
    withdrawn,   \* (history) addresses the peer ever withdrew
    panic        \* the run-time panic that ended the program, or "none"

schedulerVars == <<session, isActive, mode, paths, pathIds, lastPath, remoteAddrs,
                   total, writing, runner, allocated, withdrawn, panic>>

NoPath == <<"nil", "nil">>
IsSameVersion(l, r) == l \in IPv6 <=> r \in IPv6
Idle == [pc |-> "sleep", todo |-> {}]
Weights(ps) == SumFunctionOnSet([p \in ps |-> paths[p].weight], ps)

\* Whether the run loop may have started: createNewSession sets the session
\* first, the client's dialContext does it last.
Running == IsClient \/ session

-----------------------------------------------------------------------------
(* Session set-up *)

\* dialContext, or the server's createNewSession before it starts the session.
SetSession ==
    /\ panic = "none" /\ ~session
    /\ session' = TRUE
    /\ UNCHANGED <<isActive, mode, paths, pathIds, lastPath, remoteAddrs, total,
                   writing, runner, allocated, withdrawn, panic>>

\* handleHandshakeComplete.
Activate ==
    /\ panic = "none" /\ ~isActive /\ ~writing
    /\ Running
    /\ isActive' = TRUE
    /\ UNCHANGED <<session, mode, paths, pathIds, lastPath, remoteAddrs, total,
                   writing, runner, allocated, withdrawn, panic>>

ModeSelectionTimer ==
    /\ panic = "none" /\ session /\ isActive /\ mode = "roundRobin"
    /\ mode' = "weightBased"
    /\ UNCHANGED <<session, isActive, paths, pathIds, lastPath, remoteAddrs, total,
                   writing, runner, allocated, withdrawn, panic>>

\* measurePathsRunner: the type assertion s.session.(*session).
MeasurePaths ==
    /\ panic = "none" /\ isActive /\ ~session
    /\ panic' = "session"
    /\ UNCHANGED <<session, isActive, mode, paths, pathIds, lastPath, remoteAddrs,
                   total, writing, runner, allocated, withdrawn>>

-----------------------------------------------------------------------------
(* Choosing a path *)

\* getRoundRobinPath returns the path of the next index, nil if it is gone.
RoundRobinPath == pathIds[((lastPath + 1) % Len(pathIds)) + 1]

\* getWeightedPath goes through the paths in any order and takes the first at
\* which r, drawn from 0..total-1, is used up; r = 0 is used up at once.
WeightedPaths ==
    DOMAIN paths \cup (IF total - 1 > Weights(DOMAIN paths) THEN {NoPath} ELSE {})

StartWrite ==
    /\ panic = "none" /\ ~writing
    /\ Running
    /\ writing' = TRUE
    /\ UNCHANGED <<session, isActive, mode, paths, pathIds, lastPath, remoteAddrs,
                   total, runner, allocated, withdrawn, panic>>

\* One turn of Write's loop: the packet is sent if there is a path.
WriteOn(path) ==
    /\ writing' = (path \notin DOMAIN paths)
    /\ panic' = IF path \notin DOMAIN paths /\ ~session THEN "session" ELSE "none"

WriteRoundRobin ==
    /\ panic = "none" /\ writing /\ mode = "roundRobin"
    /\ lastPath' = (lastPath + 1) % Len(pathIds)
    /\ WriteOn(RoundRobinPath)
    /\ UNCHANGED <<session, isActive, mode, paths, pathIds, remoteAddrs, total,
                   runner, allocated, withdrawn>>

WriteWeighted ==
    /\ panic = "none" /\ writing /\ mode = "weightBased"
    /\ \/ total > 0 /\ \E path \in WeightedPaths : WriteOn(path)
       \/ total = 0 /\ panic' = "Intn" /\ UNCHANGED writing
    /\ UNCHANGED <<session, isActive, mode, paths, pathIds, lastPath, remoteAddrs,
                   total, runner, allocated, withdrawn>>

\* session.RemoteAddr, called by the application: the index is used as a path
\* ID.  (Path zero has ID 0; no other ID is a small number.)
RemoteAddr ==
    /\ panic = "none" /\ lastPath # 0
    /\ panic' = "RemoteAddr"
    /\ UNCHANGED <<session, isActive, mode, paths, pathIds, lastPath, remoteAddrs,
                   total, writing, runner, allocated, withdrawn>>

-----------------------------------------------------------------------------
(* ADDR_MOD frames *)

\* Mutant of Known: addresses are not compared.
KnownNever(r) == FALSE

Known(r) == r \in remoteAddrs

SameVersion(r) == {l \in Locals : IsSameVersion(l, r)}

\* Mutant of NewPaths: the first local address is left out.
NewPathsFromSecond(r) ==
    {[i \in 1..Cardinality(SameVersion(r)) - 1 |-> <<ls[i + 1], r>>] :
        ls \in Bijection(1..Cardinality(SameVersion(r)), SameVersion(r))}

\* The paths to r, in any of the orders in which range goes through localAddrs.
NewPaths(r) ==
    {[i \in 1..Cardinality(SameVersion(r)) |-> <<ls[i], r>>] :
        ls \in Bijection(1..Cardinality(SameVersion(r)), SameVersion(r))}

\* The local addresses for which openSocket opens a socket.
Unopened(r) == {l \in SameVersion(r) : \A i \in DOMAIN pathIds : pathIds[i][1] # l}

\* addRemoteAddress: a path from every local address of the same IP version.
\* (A loop over the paths may or may not visit those added meanwhile.)
AddRemoteAddress(r) ==
    LET path == [obj |-> allocated + 2, weight |-> MaxWeight]
    IN  /\ panic = "none" /\ ~writing /\ Running
        /\ allocated < 2 * MaxFrames
        /\ allocated' = allocated + 2   \* parseAddrModFrame, ResolveUDPAddr
        /\ \/ /\ Known(r)
              /\ UNCHANGED <<paths, pathIds, remoteAddrs, runner, panic>>
           \/ /\ ~Known(r) /\ Unopened(r) # {}   \* openSocket uses s.session
              /\ panic' \in {"ListenUDP"} \cup (IF session THEN {} ELSE {"session"})
              /\ UNCHANGED <<paths, pathIds, remoteAddrs, runner>>
           \/ /\ ~Known(r) /\ (session \/ SameVersion(r) = {})
              /\ remoteAddrs' = remoteAddrs \cup {r}
              /\ \E new \in NewPaths(r) :
                    /\ paths' = [p \in DOMAIN paths \cup Range(new) |->
                                   IF p \in Range(new) THEN path ELSE paths[p]]
                    /\ pathIds' = pathIds \o new
                    /\ \E seen \in IF runner.pc = "sleep" THEN {{}}
                                   ELSE SUBSET (Range(new) \ DOMAIN paths) :
                          runner' = [runner EXCEPT !.todo = @ \cup seen]
              /\ UNCHANGED panic
        /\ UNCHANGED <<session, isActive, mode, lastPath, total, writing, withdrawn>>

\* Path.contains compares the pointers.
PathContains(p, obj) == paths[p].obj = obj

\* removeAddress, for an address allocated by parseAddrModFrame.
RemoveAddress(r) ==
    LET gone == {p \in DOMAIN paths : PathContains(p, allocated + 1)}
    IN  /\ Removals
        /\ panic = "none" /\ ~writing /\ allocated < 2 * MaxFrames
        /\ r \in remoteAddrs   \* the peer withdraws what it announced
        /\ allocated' = allocated + 1
        /\ withdrawn' = withdrawn \cup {r}
        /\ remoteAddrs' = remoteAddrs \ {r}
        /\ paths' = [p \in DOMAIN paths \ gone |-> paths[p]]
        /\ runner' = [runner EXCEPT !.todo = @ \ gone]
        /\ UNCHANGED <<session, isActive, mode, pathIds, lastPath, total, writing,
                       panic>>

-----------------------------------------------------------------------------
(* weighPathsRunner *)

StartWeighing ==
    /\ panic = "none" /\ isActive /\ mode = "weightBased" /\ runner.pc = "sleep"
    /\ runner' = [pc |-> "weigh", todo |-> DOMAIN paths]
    /\ UNCHANGED <<session, isActive, mode, paths, pathIds, lastPath, remoteAddrs,
                   total, writing, allocated, withdrawn, panic>>

NewWeights(w) == {IF w < MaxWeight THEN w + 1 ELSE w, IF w > 1 THEN w - 1 ELSE w}

\* weighPath, for the next path of the loop.
WeighPath(p) ==
    /\ panic = "none" /\ runner.pc = "weigh" /\ p \in runner.todo
    /\ runner' = [runner EXCEPT !.todo = @ \ {p}]
    /\ \E weight \in NewWeights(paths[p].weight) :
          paths' = [paths EXCEPT ![p].weight = weight]
    /\ UNCHANGED <<session, isActive, mode, pathIds, lastPath, remoteAddrs, total,
                   writing, allocated, withdrawn, panic>>

\* Mutant of StartSumming: totalPathWeight is not reset.
StartSummingOnTop ==
    /\ panic = "none" /\ runner.pc = "weigh" /\ runner.todo = {}
    /\ runner' = [pc |-> "sum", todo |-> DOMAIN paths]
    /\ UNCHANGED <<session, isActive, mode, paths, pathIds, lastPath, remoteAddrs,
                   total, writing, allocated, withdrawn, panic>>

\* sumUpWeights sleeps between two paths.
StartSumming ==
    /\ panic = "none" /\ runner.pc = "weigh" /\ runner.todo = {}
    /\ total' = 0
    /\ runner' = [pc |-> "sum", todo |-> DOMAIN paths]
    /\ UNCHANGED <<session, isActive, mode, paths, pathIds, lastPath, remoteAddrs,
                   writing, allocated, withdrawn, panic>>

AddWeight(p) ==
    /\ panic = "none" /\ runner.pc = "sum" /\ p \in runner.todo
    /\ total' = total + paths[p].weight
    /\ runner' = [runner EXCEPT !.todo = @ \ {p}]
    /\ UNCHANGED <<session, isActive, mode, paths, pathIds, lastPath, remoteAddrs,
                   writing, allocated, withdrawn, panic>>

StopSumming ==
    /\ panic = "none" /\ runner.pc = "sum" /\ runner.todo = {}
    /\ runner' = Idle
    /\ UNCHANGED <<session, isActive, mode, paths, pathIds, lastPath, remoteAddrs,
                   total, writing, allocated, withdrawn, panic>>

-----------------------------------------------------------------------------
\* NewScheduler: path zero is the only path.
SchedulerInit ==
    /\ session = FALSE /\ isActive = FALSE /\ mode = "roundRobin"
    /\ paths = [p \in {PathZero} |-> [obj |-> 0, weight |-> MaxWeight]]
    /\ pathIds = <<PathZero>> /\ lastPath = 0
    /\ remoteAddrs = {} /\ total = MaxWeight
    /\ writing = FALSE /\ runner = Idle
    /\ allocated = 0 /\ withdrawn = {} /\ panic = "none"

SchedulerNext ==
    \/ SetSession \/ Activate \/ ModeSelectionTimer \/ MeasurePaths
    \/ StartWrite \/ WriteRoundRobin \/ WriteWeighted \/ RemoteAddr
    \/ \E r \in Remotes : AddRemoteAddress(r) \/ RemoveAddress(r)
    \/ StartWeighing \/ StartSumming \/ StopSumming
    \/ \E p \in runner.todo : WeighPath(p) \/ AddWeight(p)

SchedulerSpec == SchedulerInit /\ [][SchedulerNext]_schedulerVars

-----------------------------------------------------------------------------
\* Type invariant.
SchedulerTypeOK ==
    /\ {session, isActive, writing} \subseteq BOOLEAN
    /\ mode \in {"roundRobin", "weightBased"}
    /\ DOMAIN paths \subseteq {PathZero} \cup Locals \X Remotes
    /\ \A p \in DOMAIN paths :
          paths[p] \in [obj : 0..2 * MaxFrames + 1, weight : 1..MaxWeight]
    /\ pathIds \in Seq({PathZero} \cup Locals \X Remotes)
    /\ lastPath \in Nat /\ total \in Nat
    /\ remoteAddrs \subseteq Remotes /\ withdrawn \subseteq Remotes
    /\ runner \in [pc : {"sleep", "weigh", "sum"}, todo : SUBSET DOMAIN paths]
    /\ allocated \in 0..2 * MaxFrames + 1
    /\ panic \in {"none", "session", "ListenUDP", "Intn", "RemoteAddr"}

\* Every pair of a local address and a remote one that addRemoteAddress knows,
\* if they have the same IP version, has a path, and round robin reaches every
\* path.
FullMesh ==
    /\ \A l \in Locals, r \in remoteAddrs :
          IsSameVersion(l, r) => <<l, r>> \in DOMAIN paths
    /\ DOMAIN paths \subseteq Range(pathIds)

\* "Because of the round robin scheduling each path is utilised equally often":
\* no path is twice in pathIds, unless its address was withdrawn and announced
\* again (removePath leaves pathIds alone).
OncePerRound ==
    \A i, j \in DOMAIN pathIds :
        pathIds[i] = pathIds[j] => i = j \/ pathIds[i][2] \in withdrawn

\* getWeightedPath draws from totalPathWeight while weighPathsRunner changes the
\* weights and sums them up again, and paths are added.  The total it finds is
\* above the sum of the weights by one per path at most, so that few draws find no
\* path; and it is 0, for which rand.Intn panics, only while sumUpWeights has not
\* come to any path yet.
StaleTotal ==
    /\ total <= Weights(DOMAIN paths) + Cardinality(DOMAIN paths)
    /\ total = 0 => runner.pc = "sum" /\ runner.todo # {}

\* getWeightedPath never calls rand.Intn with 0, whatever sumUpWeights does
\* meanwhile.
IntnPositive == panic # "Intn"

\* RemoteAddr "returns the address of the peer": lastPath names a path.
RemoteAddrKnown == panic # "RemoteAddr"

\* "If one of these addresses gets removed, the lifetime of the path is over."
WithdrawnUnused == \A p \in DOMAIN paths : p[2] \notin withdrawn \ remoteAddrs

====
