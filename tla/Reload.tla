-------------------------------- MODULE Reload --------------------------------
(***************************************************************************)
(* Hot reload: crates/server/src/reload.rs, the certificate swap of tls.rs *)
(* and the start of main.rs that loads the files and starts the watch.     *)
(*                                                                         *)
(* Two threads run Reloader::reload, the watcher's and the SIGHUP task's;  *)
(* an operator edits the files at any moment.  Every reading of a file is  *)
(* a step of its own.  A hash is the bytes it was taken of (no collision). *)
(* build_table is modelled in BuildTable; here a content is a record       *)
(* [ok, upstreams]: would build_table accept it, and the cooldown it gives *)
(* each upstream.                                                          *)
(***************************************************************************)
EXTENDS Integers, FiniteSets, Functions

CONSTANTS
  Contents,      \* what the config file may hold
  Versions,      \* certificates, by number; a key fits the certificate of its version
  Setups,        \* records [config, tls, edits]: is the config in a file, is TLS
                 \* on, and how often are the files edited (bound)?
  Holders,       \* requests and health probes in flight
  MaxQueue,      \* watch events waiting (bound)
  MaxPolls,      \* events that fit into MAX_COALESCE
  None

ASSUME ReloadAssumption ==
  /\ \E c \in Contents : c.ok
  /\ \A c \in Contents : IsFiniteSet(DOMAIN c.upstreams) /\ DOMAIN c.upstreams \subseteq Nat
  /\ Setups \subseteq [config : BOOLEAN, tls : BOOLEAN, edits : Nat]
  /\ \A s \in Setups : s.config \/ s.tls
  /\ Versions \subseteq Nat
  /\ MaxQueue \in Nat \ {0} /\ MaxPolls \in Nat
  /\ None \notin {"watch", "hangup"}

Reloaders == {"watch", "hangup"}

VARIABLES
  setup,            \* how the process was started
  file, cert, key,  \* the files
  edits,            \* edits so far
  kinds,            \* kinds of edits made so far (ghost)
  main,             \* the next step of main, then "up" or "exited"
  pc,               \* the next step of each reloader
  first,            \* the certificate a thread read, before it reads the key
  seen,             \* Reloader::seen
  lock,             \* who holds its mutex
  events,           \* watch events in the channel
  polls,            \* events taken while coalescing
  sighup,           \* is a SIGHUP pending?
  table,            \* the live table: its content and the breaker of each upstream
  fresh,            \* the table a reloader has built, before it stores it
  tuning,           \* the cooldown of each breaker
  served,           \* the certificate in SwapResolver
  held,             \* the upstream each holder took from the table it saw
  gone              \* names that left the live table

files   == <<setup, file, cert, key, edits, kinds>>
threads == <<main, pc, first>>
watch   == <<events, polls>>
live    == <<table, fresh, tuning, gone>>
rvars   == <<files, threads, seen, lock, watch, sighup, live, served, held>>

HasConfig == setup.config
HasTls    == setup.tls
MaxEdits  == setup.edits

NoTable == [content |-> None, upstreams |-> [n \in {} |-> None]]

\* An inline config never changes, so that one good config stands for all.
Inline == CHOOSE c \in Contents : c.ok

ReloadInit ==
  /\ setup \in Setups
  /\ file \in Contents /\ (~HasConfig => file = Inline)
  /\ cert \in Versions /\ key = cert
  /\ edits = 0 /\ kinds = {}
  /\ main = IF HasTls THEN "tls_cert" ELSE "config"
  /\ pc = [t \in Reloaders |-> "off"]
  /\ first = [t \in Reloaders \cup {"main"} |-> None]
  /\ seen = [config |-> None, tls |-> None]
  /\ lock = None
  /\ events = 0 /\ polls = 0
  /\ sighup = FALSE
  /\ table = NoTable
  /\ fresh = [t \in Reloaders |-> NoTable]
  /\ tuning = [b \in {} |-> 0]
  /\ served = None
  /\ held = [h \in Holders |-> None]
  /\ gone = {}

-----------------------------------------------------------------------------
(* The operator *)

Watching == pc["watch"] # "off"

Notified == IF Watching /\ events < MaxQueue THEN events + 1 ELSE events

\* An edit after the file was loaded and before its digest was taken is
\* "early"; one that brings an older certificate or key is "back".
Kinds ==
  {k \in {"early", "back"} :
     CASE k = "early" -> \/ file' # file /\ main = "seen_config"
                         \/ /\ <<cert, key>>' # <<cert, key>>
                            /\ main \in {"tls_key", "config", "seen_config", "seen_cert", "seen_key"}
       [] k = "back"  -> cert' < cert \/ key' < key}

\* A file is replaced; the watch, once started, reports it.  cert and key are
\* replaced one after the other, or together by retargeting a symlink.
Edit ==
  /\ edits < MaxEdits
  /\ \/ HasConfig /\ file' \in Contents \ {file} /\ UNCHANGED <<cert, key>>
     \/ HasTls /\ cert' \in Versions \ {cert} /\ UNCHANGED <<file, key>>
     \/ HasTls /\ key' \in Versions \ {key} /\ UNCHANGED <<file, cert>>
     \/ HasTls /\ cert' \in Versions \ {cert, key} /\ key' = cert' /\ UNCHANGED file
  /\ edits' = edits + 1
  /\ kinds' = kinds \cup Kinds
  /\ events' = Notified
  /\ UNCHANGED <<setup, threads, seen, lock, polls, sighup, live, served, held>>

\* Something else in a watched directory changes, or the watch errs.
Churn ==
  /\ Watching
  /\ events < MaxQueue
  /\ events' = events + 1
  /\ UNCHANGED <<files, threads, seen, lock, polls, sighup, live, served, held>>

\* Signals coalesce while one is pending.
Sighup ==
  /\ ~sighup
  /\ sighup' = TRUE
  /\ UNCHANGED <<files, threads, seen, lock, watch, live, served, held>>

-----------------------------------------------------------------------------
(* build_table, as far as the breakers are concerned *)

\* The table for content c that shares the breakers of the previous one.
Rebuilt(c, prev) ==
  LET old == prev.upstreams
      new == {n \in DOMAIN c.upstreams : n \notin DOMAIN old}
      id(n) == Cardinality(DOMAIN tuning) + Cardinality({m \in new : m <= n})
  IN [content |-> c,
      upstreams |-> [n \in DOMAIN c.upstreams |-> IF n \in DOMAIN old THEN old[n] ELSE id(n)]]

Retuned(t) ==
  [b \in DOMAIN tuning \cup Range(t.upstreams) |->
     IF b \in Range(t.upstreams)
       THEN t.content.upstreams[CHOOSE n \in DOMAIN t.upstreams : t.upstreams[n] = b]
       ELSE tuning[b]]

-----------------------------------------------------------------------------
(* main: load, then Reloader::new, then Reloader::watch *)

Main(step, then) == main = step /\ main' = then

\* load_reloadable reads the certificate, then the key; a misfit ends main.
MainTlsCert ==
  /\ Main("tls_cert", "tls_key")
  /\ first' = [first EXCEPT !["main"] = cert]
  /\ UNCHANGED <<files, pc, seen, lock, watch, sighup, live, served, held>>

MainTlsKey ==
  /\ Main("tls_key", IF first["main"] = key THEN "config" ELSE "exited")
  /\ served' = IF first["main"] = key THEN key ELSE None
  /\ UNCHANGED <<files, pc, first, seen, lock, watch, sighup, live, held>>

\* load_cfg and build_table
MainConfig ==
  /\ \/ /\ Main("config", IF HasConfig THEN "seen_config" ELSE "seen_cert")
        /\ file.ok
        /\ table' = Rebuilt(file, NoTable)
        /\ tuning' = Retuned(table')
     \/ /\ Main("config", "exited")
        /\ ~file.ok
        /\ UNCHANGED <<table, tuning>>
  /\ UNCHANGED <<files, pc, first, seen, lock, watch, sighup, fresh, gone, served, held>>

\* Reloader::new takes the digests of the files as they are now.
MainSeenConfig ==
  /\ Main("seen_config", IF HasTls THEN "seen_cert" ELSE "watch")
  /\ seen' = [seen EXCEPT !.config = file]
  /\ UNCHANGED <<files, pc, first, lock, watch, sighup, live, served, held>>

MainSeenCert ==
  /\ Main("seen_cert", "seen_key")
  /\ first' = [first EXCEPT !["main"] = cert]
  /\ UNCHANGED <<files, pc, seen, lock, watch, sighup, live, served, held>>

MainSeenKey ==
  /\ Main("seen_key", "watch")
  /\ seen' = [seen EXCEPT !.tls = <<first["main"], key>>]
  /\ UNCHANGED <<files, pc, first, lock, watch, sighup, live, served, held>>

\* The watch is on, its thread starts with a reload, the SIGHUP task waits.
MainWatch ==
  /\ Main("watch", "up")
  /\ pc' = [pc EXCEPT !["watch"] = "lock", !["hangup"] = "wait"]
  /\ UNCHANGED <<files, first, seen, lock, watch, sighup, live, served, held>>

\* A directory that cannot be watched ends main.
MainWatchFails ==
  /\ Main("watch", "exited")
  /\ UNCHANGED <<files, pc, first, seen, lock, watch, sighup, live, served, held>>

MainStep ==
  \/ MainTlsCert \/ MainTlsKey \/ MainConfig
  \/ MainSeenConfig \/ MainSeenCert \/ MainSeenKey \/ MainWatch \/ MainWatchFails

-----------------------------------------------------------------------------
(* Reloader::reload, force for the SIGHUP task *)

Goto(t, from, to) == pc[t] = from /\ pc' = [pc EXCEPT ![t] = to]

Forced(t) == t = "hangup"

AfterConfig == IF HasTls THEN "hash_cert" ELSE "wait"

\* Mutant: no mutex.
LockFree(t) ==
  /\ Goto(t, "lock", IF HasConfig THEN "config" ELSE "hash_cert")
  /\ UNCHANGED <<lock, files, main, first, seen, watch, sighup, live, served, held>>

Lock(t) ==
  /\ Goto(t, "lock", IF HasConfig THEN "config" ELSE "hash_cert")
  /\ lock = None
  /\ lock' = t
  /\ UNCHANGED <<files, main, first, seen, watch, sighup, live, served, held>>

\* The mutex is let go on the last step.
Unlock(t) == lock' = IF pc'[t] = "wait" THEN None ELSE lock

\* Read the file once; remember its bytes even if they turn out to be bad.
ReadConfig(t) ==
  /\ \/ /\ Goto(t, "config", AfterConfig)
        /\ ~Forced(t) /\ file = seen.config
        /\ UNCHANGED fresh
     \/ /\ Goto(t, "config", AfterConfig)
        /\ Forced(t) \/ file # seen.config
        /\ ~file.ok
        /\ UNCHANGED fresh
     \/ /\ Goto(t, "config", "build")
        /\ Forced(t) \/ file # seen.config
        /\ file.ok
        /\ fresh' = [fresh EXCEPT ![t].content = file]
  /\ seen' = [seen EXCEPT !.config = file]
  /\ Unlock(t)
  /\ UNCHANGED <<files, main, first, watch, sighup, table, tuning, gone, served, held>>

\* Mutant: a rebuilt table does not share the breakers of the live one.
BuildFresh(t) ==
  /\ Goto(t, "build", "store")
  /\ fresh' = [fresh EXCEPT ![t] = Rebuilt(fresh[t].content, NoTable)]
  /\ tuning' = Retuned(fresh'[t])
  /\ UNCHANGED <<files, main, first, seen, lock, watch, sighup, table, gone, served, held>>

\* reload_once: load the live table, build the next one from it.
Build(t) ==
  /\ Goto(t, "build", "store")
  /\ fresh' = [fresh EXCEPT ![t] = Rebuilt(fresh[t].content, table)]
  /\ tuning' = Retuned(fresh'[t])
  /\ UNCHANGED <<files, main, first, seen, lock, watch, sighup, table, gone, served, held>>

Store(t) ==
  /\ Goto(t, "store", AfterConfig)
  /\ table' = fresh[t]
  /\ fresh' = [fresh EXCEPT ![t] = NoTable]
  /\ gone' = gone \cup (DOMAIN table.upstreams \ DOMAIN table'.upstreams)
  /\ Unlock(t)
  /\ UNCHANGED <<files, main, first, seen, watch, sighup, tuning, served, held>>

\* digest of cert, then key
HashCert(t) ==
  /\ Goto(t, "hash_cert", "hash_key")
  /\ first' = [first EXCEPT ![t] = cert]
  /\ UNCHANGED <<files, main, seen, lock, watch, sighup, live, served, held>>

\* Mutant: SIGHUP is treated like a watch event.
HashKeyUnforced(t) ==
  /\ LET digest == <<first[t], key>> IN
     /\ \/ Goto(t, "hash_key", "wait") /\ digest = seen.tls
        \/ Goto(t, "hash_key", "load_cert") /\ digest # seen.tls
     /\ seen' = [seen EXCEPT !.tls = digest]
  /\ Unlock(t)
  /\ UNCHANGED <<files, main, first, watch, sighup, live, served, held>>

\* Mutant: only the certificate is compared.
HashKeyIgnored(t) ==
  /\ LET digest == <<first[t], key>> IN
     /\ \/ Goto(t, "hash_key", "wait") /\ ~Forced(t) /\ digest[1] = seen.tls[1]
        \/ Goto(t, "hash_key", "load_cert") /\ (Forced(t) \/ digest[1] # seen.tls[1])
     /\ seen' = [seen EXCEPT !.tls = digest]
  /\ Unlock(t)
  /\ UNCHANGED <<files, main, first, watch, sighup, live, served, held>>

HashKey(t) ==
  /\ LET digest == <<first[t], key>> IN
     /\ \/ Goto(t, "hash_key", "wait") /\ ~Forced(t) /\ digest = seen.tls
        \/ Goto(t, "hash_key", "load_cert") /\ (Forced(t) \/ digest # seen.tls)
     /\ seen' = [seen EXCEPT !.tls = digest]
  /\ Unlock(t)
  /\ UNCHANGED <<files, main, first, watch, sighup, live, served, held>>

\* TlsReloader::reload reads the files again; a misfit keeps the old pair.
LoadCert(t) ==
  /\ Goto(t, "load_cert", "load_key")
  /\ first' = [first EXCEPT ![t] = cert]
  /\ UNCHANGED <<files, main, seen, lock, watch, sighup, live, served, held>>

LoadKey(t) ==
  /\ Goto(t, "load_key", "wait")
  /\ served' = IF first[t] = key THEN key ELSE served
  /\ Unlock(t)
  /\ UNCHANGED <<files, main, first, seen, watch, sighup, live, held>>

ReloadStep(t) ==
  \/ ReadConfig(t) \/ Build(t) \/ Store(t)
  \/ HashCert(t) \/ HashKey(t) \/ LoadCert(t) \/ LoadKey(t)

-----------------------------------------------------------------------------
(* The watch thread, the SIGHUP task and the users of the table *)

\* recv: the first event of a burst
Receive ==
  /\ Goto("watch", "wait", "coalesce")
  /\ events > 0
  /\ events' = events - 1
  /\ polls' = 0
  /\ UNCHANGED <<files, main, first, seen, lock, sighup, live, served, held>>

\* recv_timeout takes another event, as long as MAX_COALESCE has not elapsed.
Coalesce ==
  /\ pc["watch"] = "coalesce"
  /\ events > 0 /\ polls < MaxPolls
  /\ events' = events - 1
  /\ polls' = polls + 1
  /\ UNCHANGED <<files, threads, seen, lock, sighup, live, served, held>>

\* Mutant: only silence ends a burst.
QuietOnly ==
  /\ Goto("watch", "coalesce", "lock")
  /\ events = 0
  /\ UNCHANGED <<files, main, first, seen, lock, watch, sighup, live, served, held>>

\* The directory has been quiet for DEBOUNCE, or MAX_COALESCE is over.
Settle ==
  /\ Goto("watch", "coalesce", "lock")
  /\ events = 0 \/ polls = MaxPolls
  /\ UNCHANGED <<files, main, first, seen, lock, watch, sighup, live, served, held>>

TakeSighup ==
  /\ Goto("hangup", "wait", "lock")
  /\ sighup
  /\ sighup' = FALSE
  /\ UNCHANGED <<files, main, first, seen, lock, watch, live, served, held>>

\* A request or a round of health probes takes an upstream from the table
\* (from one that may change: an inline config is never reloaded) ...
Take(h) ==
  /\ main = "up" /\ HasConfig
  /\ held[h] = None
  /\ \E n \in DOMAIN table.upstreams :
       held' = [held EXCEPT ![h] = [name |-> n, breaker |-> table.upstreams[n]]]
  /\ UNCHANGED <<files, threads, seen, lock, watch, sighup, live, served>>

\* ... and reports to its breaker later.
Report(h) ==
  /\ held[h] # None
  /\ held' = [held EXCEPT ![h] = None]
  /\ UNCHANGED <<files, threads, seen, lock, watch, sighup, live, served>>

WatchStep == Receive \/ Coalesce \/ Settle

ReloadNext ==
  \/ Edit \/ Churn \/ Sighup
  \/ MainStep
  \/ WatchStep \/ TakeSighup
  \/ \E t \in Reloaders : Lock(t) \/ ReloadStep(t)
  \/ \E h \in Holders : Take(h) \/ Report(h)

ReloadSpec == ReloadInit /\ [][ReloadNext]_rvars

\* Threads are scheduled, and the mutex, which is free most of the time, is
\* got in the end.  Nobody need edit a file or send a signal.
ReloadFairness ==
  /\ WF_rvars(MainStep)
  /\ WF_rvars(WatchStep)
  /\ WF_rvars(TakeSighup)
  /\ \A t \in Reloaders : SF_rvars(Lock(t)) /\ WF_rvars(ReloadStep(t))

FairReloadSpec == ReloadSpec /\ ReloadFairness

-----------------------------------------------------------------------------
(* Properties *)

Idle == main = "up" /\ lock = None /\ pc["watch"] = "wait" /\ events = 0

\* "Catch an edit made between the initial load and the watch start": when
\* the watch thread has nothing left to do, a good config file is the one
\* that is served (Reloader::new, watch, reload).
EditsAreCaught == HasConfig /\ Idle /\ file.ok => table.content = file

\* A good config file that stays is served in the end, however much else
\* goes on in its directory (watch: MAX_COALESCE) and also when it was written
\* during a reload; only an edit between the load and the digest of
\* Reloader::new may be missed.
ConfigIsServed ==
  \A c \in Contents :
    c.ok /\ <>[](main = "up" /\ HasConfig /\ file = c /\ "early" \notin kinds)
      => <>[](table.content = c)

\* A fitting pair of certificate and key that stays is served in the end,
\* even if reload met it half written (reload, TlsReloader::reload).  That
\* needs every pair to be new: the digest and the load read the files
\* separately, so that an old pair can be taken for one already served.
CertificateIsServed ==
  \A v \in Versions :
    <>[](main = "up" /\ HasTls /\ cert = v /\ key = v /\ kinds = {})
      => <>[](served = v)

\* After a SIGHUP the files are served, whatever the watch missed (reload
\* with force).
SighupServesTheFiles ==
  sighup /\ main = "up" /\ edits = MaxEdits
    ~> /\ HasConfig /\ file.ok => table.content = file
       /\ HasTls /\ cert = key => served = cert

\* A result that comes in after any number of reloads reaches the breaker
\* the live table uses, unless its upstream was dropped meanwhile
\* (build_table: results are not stranded on an orphaned breaker).
ResultsReachTheLiveBreaker ==
  \A h \in Holders :
    held[h] # None /\ held[h].name \notin gone
      => table.upstreams[held[h].name] = held[h].breaker

\* Between reloads every breaker in use is tuned as the live table says:
\* concurrent and rejected reloads leave no trace (reload, build_table).
LiveBreakersAreTuned ==
  main = "up" /\ lock = None =>
    \A n \in DOMAIN table.upstreams :
      tuning[table.upstreams[n]] = table.content.upstreams[n]

=============================================================================
