------------------------------- MODULE Server -------------------------------
(***************************************************************************)
(* The HTTP server of prism-cli (prism-cli/src/server.rs): its start, the  *)
(* way of a request through rate limit and authentication to a handler,    *)
(* and its graceful end.  A call of RateLimiter::check holds the mutex of  *)
(* the buckets, so it is one step; the client is known by its connection.  *)
(***************************************************************************)
EXTENDS Naturals, FiniteSets

CONSTANTS
  Ips,
  MaxRequests,      \* requests a client may make within a window (60)
  RateWindow,           \* its length in ticks
  MaxIps,           \* clients the table has room for (10 000)
  CleanupThreshold, \* clients beyond which every request cleans all (1024)
  MaxTicks, MaxArrivals   \* bounds: ticks and requests in a behaviour

ASSUME ServerAssumption == IsFiniteSet(Ips) /\ MaxRequests \in Nat /\ RateWindow \in Nat /\ MaxIps \in Nat

VARIABLES
  server,     \* "new", "bound", "draining", "stopped" or "failed"
  locked,     \* the PID lock is held
  watching,   \* a watcher thread is meant to run
  inFlight,   \* a request is with its handler
  buckets,    \* clients of the table -> their requests
  serverNow,
  granted,    \* history: the requests let through
  reply       \* what the last request was answered, within this tick
srvVars == <<server, locked, watching, inFlight, buckets, serverNow, granted, reply>>

NoReply == [ip |-> "none", code |-> 0]
\* A request, told from others of the same client and time by a number.
Arrival(ip, at, no) == [ip |-> ip, at |-> at, no |-> no]
Of(ip) == {r \in granted : r.ip = ip}
Live(t) == t + RateWindow > serverNow
InWindow(requests) == {r \in requests : Live(r.at)}

SrvInit ==
  /\ server = "new" /\ locked = FALSE /\ watching = FALSE /\ inFlight = FALSE
  /\ buckets = [ip \in {} |-> {}] /\ serverNow = 0
  /\ granted = {} /\ reply = NoReply

\* run(): the lock, the watcher (unless --no-watch is given or it cannot be started), the port.
\* An error of the lock or of bind() leaves run() at once; after that of bind() the watcher goes
\* on until the process ends, and the lock is dropped.
LockRefused ==
  /\ server = "new" /\ server' = "failed"
  /\ UNCHANGED <<locked, watching, inFlight, buckets, serverNow, granted, reply>>
RunServer(watched, bindFails) ==
  /\ server = "new"
  /\ server' = IF bindFails THEN "failed" ELSE "bound"
  /\ locked' = ~bindFails
  /\ watching' = watched
  /\ UNCHANGED <<inFlight, buckets, serverNow, granted, reply>>

\* The entries of the table that have a request within the window, and only these requests.
Cleaned(table) == [ip \in {ip \in DOMAIN table : InWindow(table[ip]) # {}} |-> InWindow(table[ip])]
CleanedOf(table, ip) ==
  IF InWindow(table[ip]) # {} THEN [table EXCEPT ![ip] = InWindow(@)] ELSE [k \in DOMAIN table \ {ip} |-> table[k]]
NoRoom(table, ip) == ip \notin DOMAIN table /\ Cardinality(DOMAIN table) >= MaxIps
\* MUTANT of AtLimit: a new client is refused before anything is cleaned.
MutAtLimit(ip) == buckets
\* At the limit of clients a new one has all entries cleaned first.
AtLimit(ip) == IF NoRoom(buckets, ip) THEN Cleaned(buckets) ELSE buckets
\* Many clients: clean all.  Few, but not one alone: sometimes clean another, chosen at random.
Tidied(table, ip) ==
  IF Cardinality(DOMAIN table) > CleanupThreshold THEN {Cleaned(table)}
  ELSE {table} \cup {CleanedOf(table, other) : other \in IF Cardinality(DOMAIN table) > 1 THEN DOMAIN table \ {ip} ELSE {}}

Exceeds(requests) == Cardinality(requests) >= MaxRequests
Asking(ip) == Arrival(ip, serverNow, Cardinality(Of(ip)) + 1)
\* check(): the table it leaves and whether the request may pass.
Answered(table, ip) ==
  LET recent == IF ip \in DOMAIN table THEN InWindow(table[ip]) ELSE {}
      kept   == IF Exceeds(recent) THEN recent ELSE recent \cup {Asking(ip)}
  IN  [table |-> [k \in DOMAIN table \cup {ip} |-> IF k = ip THEN kept ELSE table[k]], passes |-> ~Exceeds(recent)]
Checks(ip) ==
  IF NoRoom(AtLimit(ip), ip) THEN {[table |-> AtLimit(ip), passes |-> FALSE]}
  ELSE {Answered(table, ip) : table \in Tidied(AtLimit(ip), ip)}

Code(passes, authorized) == IF ~passes THEN 429 ELSE IF authorized THEN 200 ELSE 401
\* The layers from outside in: rate limit, authentication, handler.  What has the wrong key has
\* used up its share all the same.
Request(ip, authorized) ==
  /\ server = "bound" /\ ~inFlight /\ Cardinality(granted) < MaxArrivals
  /\ \E result \in Checks(ip) :
       /\ buckets' = result.table
       /\ granted' = IF result.passes THEN granted \cup {Asking(ip)} ELSE granted
       /\ inFlight' = (result.passes /\ authorized)
       /\ reply' = [ip |-> ip, code |-> Code(result.passes, authorized)]
  /\ UNCHANGED <<server, locked, watching, serverNow>>

\* api_watch_start, api_watch_stop, and the handlers that leave the watcher alone.
Handle(watch) ==
  /\ inFlight
  /\ inFlight' = FALSE /\ watching' = watch
  /\ UNCHANGED <<server, locked, buckets, serverNow, granted, reply>>

\* SIGINT or SIGTERM: no new connection; the requests at work are waited for.
ShutdownSignal ==
  /\ server = "bound" /\ server' = "draining" /\ reply' = NoReply
  /\ UNCHANGED <<locked, watching, inFlight, buckets, serverNow, granted>>
Drained == ~inFlight
StopServer ==
  /\ server = "draining" /\ Drained
  /\ server' = "stopped" /\ watching' = FALSE /\ locked' = FALSE
  /\ UNCHANGED <<inFlight, buckets, serverNow, granted, reply>>
ServerTick ==
  /\ server = "bound" /\ serverNow < MaxTicks
  /\ serverNow' = serverNow + 1 /\ reply' = NoReply
  /\ UNCHANGED <<server, locked, watching, inFlight, buckets, granted>>

SrvNext ==
  \/ LockRefused \/ \E watched, bindFails \in BOOLEAN : RunServer(watched, bindFails)
  \/ \E ip \in Ips, authorized \in BOOLEAN : Request(ip, authorized)
  \/ \E watch \in BOOLEAN : Handle(watch)
  \/ ShutdownSignal \/ StopServer \/ ServerTick
SrvSpec == SrvInit /\ [][SrvNext]_srvVars

-----------------------------------------------------------------------------
Recent(ip) == Cardinality(InWindow(Of(ip)))
\* Whichever entries were cleaned, at random or all of them: no client gets more requests through
\* than a window allows, a client is refused only when it has used up its window or when as many
\* others as there is room for have used theirs, the table never outgrows its bound, and a server
\* that has stopped has neither a watcher nor a request left.  (server.rs check, run)
ServerSound ==
  /\ \A ip \in Ips : Recent(ip) <= MaxRequests
  /\ reply.code = 429 =>
       \/ Recent(reply.ip) = MaxRequests
       \/ Recent(reply.ip) = 0 /\ Cardinality({ip \in Ips \ {reply.ip} : Recent(ip) > 0}) >= MaxIps
  /\ Cardinality(DOMAIN buckets) <= MaxIps
  /\ server = "stopped" => ~watching /\ ~inFlight /\ ~locked
=============================================================================
