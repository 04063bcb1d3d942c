----------------------------- MODULE Instances -----------------------------
(***************************************************************************)
(* The integrations that watch a list of servers: PostgreSQL, MySQL,       *)
(* Redis, MongoDB and RabbitMQ, src/internal/collectors/<name>/            *)
(* collector.go.  Their Collect loops are the same; they differ in what an *)
(* instance holds on to between rounds, in which deadline its operations   *)
(* obey and in what a failure closes.                                      *)
(*                                                                         *)
(* The runner starts a round after each tick, `late' units after it if the *)
(* collector had to wait for a slot, and one deadline covers the whole     *)
(* round.  Time passes (Elapse) only while a server is keeping the         *)
(* collector waiting.  wait[j] is nextAttempt as seen from `now', which    *)
(* Collect takes once, at the start of the round.                          *)
(***************************************************************************)
EXTENDS Integers, Sequences, FiniteSets

CONSTANTS
    Integrations,   \* the integrations to look at; a behaviour is about one
    Order,          \* the configured instances, a sequence
    Every,          \* Every[k]: the interval of integration k
    OpTimeout,      \* OpTimeout[k]: its defaultOpTimeout
    CollectTimeout, \* the deadline the runner grants to one round
    RetryEvery,     \* how long a failing instance is left alone
    Delays          \* how long a round may wait for its slot

Instance == {Order[n] : n \in DOMAIN Order}
AllIntegrations == {"postgres", "mysql", "redis", "mongo", "rabbitmq"}

ASSUME InstancesAssumption ==
    /\ Integrations \subseteq AllIntegrations
    /\ Order \in Seq(Instance)
    /\ \A m, n \in DOMAIN Order : Order[m] = Order[n] => m = n

ASSUME TimeAssumption ==
    /\ CollectTimeout \in Nat \ {0}
    /\ RetryEvery \in Nat \ {0}
    /\ OpTimeout \in [AllIntegrations -> Nat \ {0}]
    /\ Every \in [AllIntegrations -> Nat \ {0}]
    /\ Delays \subseteq 0 .. CollectTimeout - 1

(* What a round can take beyond its deadline: Redis may dial, log in and   *)
(* ask, each for OpTimeout; a PostgreSQL or MongoDB connection may take a  *)
(* second to close.  The constants of the code leave room for it.          *)
CloseTimeoutOf(k) == IF k \in {"postgres", "mongo"} THEN 1 ELSE 0
Excess(k) == IF k = "redis" THEN 3 * OpTimeout[k] - 1 ELSE CloseTimeoutOf(k)

ASSUME RoomAssumption ==
    \A k \in AllIntegrations : CollectTimeout + Excess(k) < Every[k]

VARIABLES
    kind,       \* the integration this behaviour is about
    pc,         \* what the collector's goroutine is doing
    pos,        \* index of the instance the loop has reached
    late,       \* time from the tick to the start of the round
    spent,      \* time since the start of the round
    op,         \* time left to the operation that runs
    wait,       \* time from the start of the round to inst.nextAttempt
    conn,       \* what inst.conn, db or client refers to
    sessions,   \* connections made and not closed, by instance
    unread,     \* instances whose connection still owes an answer
    server,     \* what the servers do
    cancelled   \* the agent is shutting down

vars == <<kind, pc, pos, late, spent, op, wait, conn, sessions, unread, server,
          cancelled>>
clock == <<late, spent>>
links == <<conn, sessions, unread>>
outside == <<kind, server, cancelled>>
-----------------------------------------------------------------------------
Smaller(a, b) == IF a < b THEN a ELSE b
Larger(a, b) == IF a > b THEN a ELSE b

Places == {"idle", "loop", "connect", "login", "query", "extra", "closing",
           "closed"}
Waiting == {"connect", "login", "query", "extra"}

(* An "up" server answers at once, a "down" one refuses at once, a "hung"  *)
(* one never answers, and a "slow" one may take any time, or fail.         *)
Manners == {"up", "slow", "hung", "down"}

(* "stale": the peer is gone and the collector has not noticed.  "shut":   *)
(* pgx closed the connection itself when a context ended during a query.   *)
Links == {"none", "open", "stale", "shut"}

(* Pools that replace a dead connection behind the collector's back. *)
Pooled == {"mysql", "mongo"}

TypeOK ==
    /\ kind \in Integrations
    /\ pc \in Places
    /\ pos \in 1 .. Len(Order) + 1
    /\ late \in Delays
    /\ spent \in Nat
    /\ op \in Nat
    /\ wait \in [Instance -> 0 .. RetryEvery]
    /\ conn \in [Instance -> Links]
    /\ sessions \in [Instance -> Nat]
    /\ unread \subseteq Instance
    /\ server \in [Instance -> Manners]
    /\ cancelled \in BOOLEAN

inst == Order[pos]
Held(j) == conn[j] \in {"open", "stale"}

(* What is left of the context the runner passed to Collect. *)
Ctx == IF cancelled THEN 0 ELSE Larger(0, CollectTimeout - late - spent)

(* Redis puts its own deadline on each command, whatever the context says, *)
(* and on dialling with TLS.  The others run under the context.            *)
HeedsContext == kind # "redis"
OpDeadline ==
    IF HeedsContext THEN Smaller(OpTimeout[kind], Ctx) ELSE OpTimeout[kind]

(* resetConn and resetClient give pgx and the MongoDB driver a second. *)
CloseTimeout == CloseTimeoutOf(kind)

Init ==
    /\ kind \in Integrations
    /\ pc = "loop"
    /\ pos = 1
    /\ late \in Delays
    /\ spent = 0
    /\ op = 0
    /\ wait = [j \in Instance |-> 0]
    /\ conn = [j \in Instance |-> "none"]
    /\ sessions = [j \in Instance |-> 0]
    /\ unread = {}
    /\ server \in [Instance -> Manners]
    /\ cancelled = FALSE
-----------------------------------------------------------------------------
(* The next tick: the runner calls Collect, which takes a new `now'.       *)
Round ==
    /\ pc = "idle"
    /\ ~cancelled
    /\ late' \in Delays
    /\ LET passed == Larger(Every[kind], late + spent) - late + late'
       IN  wait' = [j \in Instance |-> Larger(0, wait[j] - passed)]
    /\ spent' = 0
    /\ pos' = 1
    /\ pc' = "loop"
    /\ UNCHANGED <<op, links, outside>>

(* The end of the list, or a context that is done.  An instance that is    *)
(* not due is passed over before the context is looked at.                 *)
Return ==
    /\ pc = "loop"
    /\ \/ pos > Len(Order)
       \/ pos <= Len(Order) /\ wait[inst] = 0 /\ Ctx = 0
    /\ pc' = "idle"
    /\ UNCHANGED <<pos, clock, op, wait, links, outside>>

Skip ==
    /\ pc = "loop"
    /\ pos <= Len(Order)
    /\ wait[inst] > 0
    /\ pos' = pos + 1
    /\ UNCHANGED <<pc, clock, op, wait, links, outside>>

Begin(place) ==
    /\ pc' = place
    /\ op' = OpDeadline

(* Mutant: the loop does not ask whether its context is done. *)
DueHeedless == pc = "loop" /\ pos <= Len(Order) /\ wait[inst] = 0

Due == pc = "loop" /\ pos <= Len(Order) /\ wait[inst] = 0 /\ Ctx > 0

(* ensureConn, ensureDB, ensureClient: keep what the instance holds. *)
Usable == kind = "rabbitmq" \/ Held(inst)

Reuse ==
    /\ Due
    /\ Usable
    /\ Begin("query")
    /\ UNCHANGED <<pos, clock, wait, links, outside>>

(* ensureConn and ensureClient of PostgreSQL and Redis: dial. *)
Dial ==
    /\ Due
    /\ ~Usable
    /\ kind \in {"postgres", "redis"}
    /\ Begin("connect")
    /\ UNCHANGED <<pos, clock, wait, links, outside>>

(* sql.Open only makes a pool; the first query connects. *)
OpenPool ==
    /\ Due
    /\ ~Usable
    /\ kind = "mysql"
    /\ conn' = [conn EXCEPT ![inst] = "open"]
    /\ sessions' = [sessions EXCEPT ![inst] = @ + 1]
    /\ Begin("query")
    /\ UNCHANGED <<pos, clock, wait, unread, outside>>

(* mongo.Connect starts a client; the ping that follows needs the server.  *)
StartClient ==
    /\ Due
    /\ ~Usable
    /\ kind = "mongo"
    /\ sessions' = [sessions EXCEPT ![inst] = @ + 1]
    /\ Begin("login")
    /\ UNCHANGED <<pos, clock, wait, conn, unread, outside>>
-----------------------------------------------------------------------------
Alive == conn[inst] # "stale" \/ kind \in Pooled
CanAnswer == server[inst] \in {"up", "slow"} /\ Alive
CanFail == server[inst] \in {"slow", "down"} \/ ~Alive
OutOfTime == op = 0 \/ (HeedsContext /\ Ctx = 0)

Keep(link) == conn' = [conn EXCEPT ![inst] = link]

(* Redis goes on to AUTH when it has a password, and hands the connection  *)
(* over only after that; pgx.Connect has logged in when it returns.        *)
Connected ==
    /\ pc = "connect"
    /\ CanAnswer
    /\ sessions' = [sessions EXCEPT ![inst] = @ + 1]
    /\ \/ kind = "redis" /\ Begin("login") /\ UNCHANGED conn
       \/ Keep("open") /\ IF kind = "redis" THEN Begin("query")
                          ELSE pc' = "query" /\ UNCHANGED op
    /\ UNCHANGED <<pos, clock, wait, unread, outside>>

LoggedIn ==
    /\ pc = "login"
    /\ CanAnswer
    /\ Keep("open")
    /\ IF kind = "redis" THEN Begin("query") ELSE pc' = "query" /\ UNCHANGED op
    /\ UNCHANGED <<pos, clock, wait, sessions, unread, outside>>

(* The readings after the first one are optional; what they cost comes out *)
(* of the same deadline, except that each HTTP request has its own: the    *)
(* queues are asked for in two ways before listQueues gives up.            *)
Answered ==
    /\ pc = "query"
    /\ CanAnswer
    /\ IF kind = "rabbitmq" THEN UNCHANGED conn ELSE Keep("open")
    /\ \/ /\ kind = "rabbitmq"
          /\ pc' = "extra"
          /\ op' = Smaller(2 * OpTimeout[kind], Ctx)
          /\ UNCHANGED pos
       \/ /\ kind \in {"postgres", "mysql"}
          /\ pc' = "extra"
          /\ UNCHANGED <<op, pos>>
       \/ /\ kind \in {"redis", "mongo"}
          /\ pc' = "loop"
          /\ pos' = pos + 1
          /\ op' = 0
    /\ UNCHANGED <<clock, wait, sessions, unread, outside>>

(* Whatever the optional readings come to, the instance counts as          *)
(* collected.  pgx closes a connection that failed under a query, not one  *)
(* whose next query finds its context done.                                *)
Finished ==
    /\ pc = "extra"
    /\ \/ (CanAnswer \/ OutOfTime) /\ UNCHANGED links
       \/ /\ CanFail \/ OutOfTime
          /\ IF kind = "postgres"
             THEN /\ Keep("shut")
                  /\ sessions' = [sessions EXCEPT ![inst] = @ - 1]
                  /\ UNCHANGED unread
             ELSE UNCHANGED links
    /\ pc' = "loop"
    /\ pos' = pos + 1
    /\ op' = 0
    /\ UNCHANGED <<clock, wait, outside>>

(* The first reading of j came in. *)
Heard(j) == pc = "query" /\ inst = j /\ pc' \in {"loop", "extra"}
-----------------------------------------------------------------------------
(* Mutant: a failing instance is tried again in the next round. *)
PutOffNot == pc' = "loop" /\ pos' = pos + 1 /\ op' = 0 /\ UNCHANGED wait

(* nextAttempt = now + retryEvery, with the `now' of the round. *)
PutOff ==
    /\ pc' = "loop"
    /\ pos' = pos + 1
    /\ op' = 0
    /\ wait' = [wait EXCEPT ![inst] = RetryEvery]

(* Without TLS Redis dials under the context. *)
ConnectFails ==
    /\ pc = "connect"
    /\ CanFail \/ OutOfTime \/ Ctx = 0
    /\ PutOff
    /\ UNCHANGED <<clock, links, outside>>

(* Mutant: dial forgets the connection it could not log in on. *)
LoginFailsLeaking ==
    /\ pc = "login"
    /\ CanFail \/ OutOfTime
    /\ PutOff
    /\ UNCHANGED <<clock, links, outside>>

(* dial closes the connection AUTH failed on, ensureClient the client that *)
(* could not ping: neither was the instance's yet.                         *)
LoginFails ==
    /\ pc = "login"
    /\ CanFail \/ OutOfTime
    /\ sessions' = [sessions EXCEPT ![inst] = @ - 1]
    /\ PutOff
    /\ UNCHANGED <<clock, conn, unread, outside>>

(* Mutant: the connection is kept for the next attempt. *)
DropNothing == UNCHANGED links

(* Mutant: there is no test for a connection that is not there. *)
DropBlindly ==
    /\ conn' = [conn EXCEPT ![inst] = "none"]
    /\ sessions' = [sessions EXCEPT ![inst] = @ - 1]
    /\ unread' = unread \ {inst}

(* resetConn, resetDB, resetClient: nothing of the connection is left,     *)
(* neither the reference nor an answer that may still arrive.              *)
Drop ==
    /\ conn' = [conn EXCEPT ![inst] = "none"]
    /\ sessions' = [sessions EXCEPT ![inst] = IF Held(inst) THEN @ - 1 ELSE @]
    /\ unread' = unread \ {inst}

(* The first reading failed; the goodbye comes next.  After a timeout the  *)
(* answer may still be on its way.                                         *)
QueryFails ==
    /\ pc = "query"
    /\ CanFail \/ OutOfTime
    /\ pc' = "closing"
    /\ op' = CloseTimeout
    /\ unread' = IF OutOfTime THEN unread \cup {inst} ELSE unread
    /\ UNCHANGED <<pos, clock, wait, conn, sessions, outside>>

SaidGoodbye ==
    /\ pc = "closing"
    /\ Drop
    /\ PutOff
    /\ UNCHANGED <<clock, outside>>
-----------------------------------------------------------------------------
(* One unit of time, while a server keeps the collector waiting. *)
Elapse ==
    /\ \/ /\ pc \in Waiting
          /\ server[inst] \in {"slow", "hung"}
          /\ Alive /\ ~OutOfTime
       \/ pc = "closing" /\ op > 0
    /\ spent' = spent + 1
    /\ op' = op - 1
    /\ UNCHANGED <<pc, pos, late, wait, links, outside>>

(* A server changes its manners; one that goes down takes its connections  *)
(* with it.                                                                *)
Change(j, manner) ==
    /\ pc # "closed"
    /\ manner # server[j]
    /\ server' = [server EXCEPT ![j] = manner]
    /\ conn' = [conn EXCEPT ![j] =
                   IF @ = "open" /\ manner = "down" THEN "stale" ELSE @]
    /\ UNCHANGED <<kind, pc, pos, clock, op, wait, sessions, unread, cancelled>>

Cancel ==
    /\ pc # "closed"
    /\ ~cancelled
    /\ cancelled' = TRUE
    /\ UNCHANGED <<kind, pc, pos, clock, op, wait, links, server>>

(* Close, once the collector's goroutine has ended.  RabbitMQ has nothing  *)
(* to close and no Close.                                                  *)
Close ==
    /\ pc = "idle"
    /\ cancelled
    /\ pc' = "closed"
    /\ conn' = [j \in Instance |-> "none"]
    /\ sessions' = [j \in Instance |->
                      IF Held(j) THEN sessions[j] - 1 ELSE sessions[j]]
    /\ unread' = {}
    /\ UNCHANGED <<pos, clock, op, wait, outside>>

Closed == pc = "closed" /\ UNCHANGED vars

Try == Reuse \/ Dial \/ OpenPool \/ StartClient
Succeed == Connected \/ LoggedIn \/ Answered \/ Finished
Fail == ConnectFails \/ LoginFails \/ QueryFails \/ SaidGoodbye
Collect == Round \/ Return \/ Skip \/ Try \/ Succeed \/ Fail \/ Elapse

Next ==
    \/ Collect
    \/ \E j \in Instance, manner \in Manners : Change(j, manner)
    \/ Cancel
    \/ Close
    \/ Closed

(* The goroutine runs, ticks come and time passes; servers do as they like *)
(* and nobody has to stop the agent.                                       *)
Spec == Init /\ [][Next]_vars /\ WF_vars(Collect) /\ WF_vars(Close)
-----------------------------------------------------------------------------
(* Every connection that was made and not closed belongs to its instance,  *)
(* or to the dial in progress, and there is never a second one: a failed   *)
(* login, a reset, a connection pgx closed itself and Close each give up   *)
(* exactly one (postgres/collector.go:309-328, redis/resp.go:100-104,      *)
(* mongo/collector.go:238-242).                                            *)
Owned ==
    \A j \in Instance :
        sessions[j] = IF Held(j) \/ (pc = "login" /\ inst = j) THEN 1 ELSE 0

(* A query runs on a connection that the instance holds, that was not      *)
(* closed at this end, and that owes no answer to an earlier command: a    *)
(* late reply is never read as the answer to the next question             *)
(* (redis/collector.go:81-85, postgres/collector.go:310).                  *)
CleanConn ==
    pc = "query" /\ kind # "rabbitmq" =>
        Held(inst) /\ inst \notin unread

(* However the servers behave, a round is over before the next tick, also  *)
(* for Redis, which lets an operation run past the deadline it was granted *)
(* (runner.go:140-142, redis/collector.go:78-80, redis/resp.go:116-120).   *)
InTime == late + spent < Every[kind]

(* A silent server costs the others a whole round, and may be asked again  *)
(* after RetryEvery; the rest of the rounds must be theirs.                *)
Affordable ==
    \A silent \in SUBSET Instance :
        (\A j \in silent : server[j] = "hung") =>
            Cardinality(silent) * Every[kind] + CollectTimeout <= RetryEvery

(* Once the servers have settled, so that each answers at once, refuses or *)
(* is silent for good, those that answer are collected from again and      *)
(* again, if the silent ones are not too many: each of them costs a round  *)
(* and is then left alone for RetryEvery (config.go:32-35, the Collect     *)
(* loops).                                                                 *)
DeadCostLittle ==
    <>[][UNCHANGED <<server, cancelled>>]_vars =>
        \A j \in Instance :
            <>[](/\ Affordable /\ ~cancelled
                 /\ server[j] = "up"
                 /\ \A k \in Instance : server[k] # "slow")
            => []<><<Heard(j)>>_vars

(* "Every 10s: ... MongoDB, PostgreSQL, MySQL, Redis. Every 30s: RabbitMQ" *)
(* (cmd/prostometrics-agent/README.md:6-8): a server that answers at once  *)
(* is collected from again and again.                                      *)
EveryInstanceHeard ==
    \A j \in Instance :
        <>[](server[j] = "up" /\ ~cancelled) => []<><<Heard(j)>>_vars
=============================================================================
