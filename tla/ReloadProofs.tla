----------------------------- MODULE ReloadProofs -----------------------------
(***************************************************************************)
(* Machine-checked proofs about Reload, for any set of configs with any    *)
(* upstreams, any number of edits and any number of holders; and, at the   *)
(* end, about the part of a reload that stays with a breaker: Circuit, for *)
(* any number of users and any set of tunings a reload may bring.          *)
(***************************************************************************)
EXTENDS Circuit, Reload, FiniteSetTheorems, TLAPS

-----------------------------------------------------------------------------
(* The inductive invariant *)

\* The steps of a thread.
Steps == {"off", "wait", "coalesce", "lock", "config", "build", "store",
          "hash_cert", "hash_key", "load_cert", "load_key"}

\* The steps of Reloader::reload that run under its mutex.
InReload(t) ==
  pc[t] \in {"config", "build", "store", "hash_cert", "hash_key", "load_cert", "load_key"}

\* Breakers are numbered in the order of their creation; f is their tuning.
Numbered(f) == IsFiniteSet(DOMAIN f) /\ DOMAIN f \subseteq 1..Cardinality(DOMAIN f)

\* The upstreams of a table have a breaker each, and no two the same.
OwnBreakers(tab, f) ==
  /\ \A n \in DOMAIN tab.upstreams : tab.upstreams[n] \in DOMAIN f
  /\ \A m, n \in DOMAIN tab.upstreams : tab.upstreams[m] = tab.upstreams[n] => m = n

\* The breakers of a table are tuned as its config says.
Tuned(tab, f) ==
  \A n \in DOMAIN tab.upstreams : f[tab.upstreams[n]] = tab.content.upstreams[n]

\* The upstreams of both tables have the same breaker in both.
SameBreakers(tab, old) ==
  \A n \in DOMAIN tab.upstreams \cap DOMAIN old.upstreams : tab.upstreams[n] = old.upstreams[n]

\* A holder's upstream has left the live table, or is in it with that breaker.
Held ==
  \A h \in Holders :
    \/ held[h] = None
    \/ held[h].name \in gone
    \/ /\ held[h].name \in DOMAIN table.upstreams
       /\ table.upstreams[held[h].name] = held[h].breaker

Shapes ==
  /\ pc \in [Reloaders -> Steps]
  /\ DOMAIN held = Holders
  /\ file \in Contents
  /\ DOMAIN fresh = Reloaders
  /\ \A t \in Reloaders :
       fresh[t] = [content |-> fresh[t].content, upstreams |-> fresh[t].upstreams]

\* Before main has a table there is no breaker; before it is up nobody reloads.
Started ==
  /\ main \in {"tls_cert", "tls_key", "config"} => table = NoTable /\ DOMAIN tuning = {}
  /\ main # "up" => \A t \in Reloaders : pc[t] = "off"

\* What a reload has made so far.
Underway ==
  \A t \in Reloaders :
    /\ InReload(t) => lock = t
    /\ pc[t] = "build" => fresh[t].content \in Contents
    /\ pc[t] = "store" => /\ OwnBreakers(fresh[t], tuning) /\ Tuned(fresh[t], tuning)
                          /\ SameBreakers(fresh[t], table)

ReloadInv ==
  /\ Shapes /\ Started /\ Underway /\ Held
  /\ Numbered(tuning) /\ OwnBreakers(table, tuning)
  /\ (\A t \in Reloaders : pc[t] # "store") => Tuned(table, tuning)

-----------------------------------------------------------------------------
(* build_table *)

\* Counting the new upstreams up to n gives each of them a number of its own.
LEMMA RanksDiffer ==
  ASSUME NEW S, IsFiniteSet(S), S \subseteq Nat
  PROVE  /\ \A n \in S : Cardinality({m \in S : m <= n}) \in 1..Cardinality(S)
         /\ \A j, k \in S :
              Cardinality({m \in S : m <= j}) = Cardinality({m \in S : m <= k}) => j = k
<1> DEFINE upTo(n) == {m \in S : m <= n}
<1>1. \A n \in S : upTo(n) \in SUBSET S /\ n \in upTo(n)
  OBVIOUS
<1>2. \A n \in S : /\ IsFiniteSet(upTo(n))
                   /\ Cardinality(upTo(n)) \in Nat
                   /\ Cardinality(upTo(n)) <= Cardinality(S)
  BY <1>1, FS_Subset, FS_CardinalityType, Zenon
<1>3. \A n \in S : Cardinality(upTo(n)) # 0
  BY <1>1, <1>2, FS_EmptySet, Zenon
<1>4. ASSUME NEW j \in S, NEW k \in S, j < k
      PROVE  Cardinality(upTo(j)) # Cardinality(upTo(k))
  <2>1. upTo(j) \subseteq upTo(k)
    <3>1. \A m \in S : m <= j => m <= k
      BY <1>4
    <3>2. QED
      BY <3>1, Zenon
  <2>2. k \notin upTo(j)
    BY <1>4
  <2>3. QED
    BY <1>1, <1>2, <2>1, <2>2, FS_Subset, Zenon
<1>5. Cardinality(S) \in Nat
  BY FS_CardinalityType, Zenon
<1> HIDE DEF upTo
<1>6. \A n \in S : Cardinality(upTo(n)) \in 1..Cardinality(S)
  BY <1>2, <1>3, <1>5
<1>7. \A j, k \in S : Cardinality(upTo(j)) = Cardinality(upTo(k)) => j = k
  <2> TAKE j, k \in S
  <2>1. j < k \/ k < j \/ j = k
    OBVIOUS
  <2>2. QED
    BY <1>4, <2>1, Zenon
<1>8. QED
  BY <1>6, <1>7, Zenon DEF upTo

\* build_table, given the table it replaces: an upstream both know keeps its
\* breaker, a new one gets a breaker nobody has, and all are tuned as the new
\* config says.  No breaker is taken away from those who hold an old table.
LEMMA RebuiltIsSound ==
  ASSUME Numbered(tuning), NEW c \in Contents, NEW prev, OwnBreakers(prev, tuning),
         NEW tab, tab = Rebuilt(c, prev), NEW f, f = Retuned(tab)
  PROVE  /\ tab = [content |-> tab.content, upstreams |-> tab.upstreams]
         /\ Numbered(f) /\ OwnBreakers(tab, f) /\ Tuned(tab, f)
         /\ SameBreakers(tab, prev)
         /\ DOMAIN tuning \subseteq DOMAIN f
<1> DEFINE new == {n \in DOMAIN c.upstreams : n \notin DOMAIN prev.upstreams}
           N == Cardinality(DOMAIN tuning)
           rank(n) == Cardinality({m \in new : m <= n})
           ids == {N + rank(n) : n \in new}
<1>1. new \in SUBSET DOMAIN c.upstreams /\ IsFiniteSet(new) /\ new \subseteq Nat
  <2>1. IsFiniteSet(DOMAIN c.upstreams) /\ DOMAIN c.upstreams \subseteq Nat
    BY ReloadAssumption, Zenon
  <2>2. new \in SUBSET DOMAIN c.upstreams
    BY Zenon
  <2>3. QED
    BY <2>1, <2>2, FS_Subset, Zenon
<1>2. N \in Nat /\ Cardinality(new) \in Nat /\ DOMAIN tuning \subseteq 1..N
      /\ IsFiniteSet(DOMAIN tuning)
  BY <1>1, FS_CardinalityType, Zenon DEF Numbered
<1>3. /\ \A n \in new : rank(n) \in 1..Cardinality(new)
      /\ \A j, k \in new : rank(j) = rank(k) => j = k
  <2> HIDE DEF new
  <2>1. QED
    BY <1>1, RanksDiffer, Zenon
<1>4. /\ tab = [content |-> tab.content, upstreams |-> tab.upstreams]
      /\ tab.content = c
      /\ DOMAIN tab.upstreams = DOMAIN c.upstreams
      /\ \A n \in DOMAIN c.upstreams : n \in DOMAIN prev.upstreams
                                         => tab.upstreams[n] = prev.upstreams[n]
  BY Zenon DEF Rebuilt
<1>5. \A n \in new : tab.upstreams[n] = N + rank(n)
  BY Zenon DEF Rebuilt
<1>6. \A n \in DOMAIN c.upstreams : n \in new \/ n \in DOMAIN prev.upstreams
  BY Zenon
<1>7. \A n \in new : n \notin DOMAIN prev.upstreams
  BY Zenon
<1> HIDE DEF new, rank, N
<1>8. \A n \in DOMAIN c.upstreams :
        \/ n \in new /\ tab.upstreams[n] = N + rank(n) /\ rank(n) \in 1..Cardinality(new)
        \/ /\ n \in DOMAIN prev.upstreams /\ tab.upstreams[n] = prev.upstreams[n]
           /\ tab.upstreams[n] \in 1..N /\ tab.upstreams[n] \in DOMAIN tuning
  BY <1>2, <1>3, <1>4, <1>5, <1>6, Zenon DEF OwnBreakers
<1>9. \A j, k \in DOMAIN tab.upstreams : tab.upstreams[j] = tab.upstreams[k] => j = k
  <2> SUFFICES ASSUME NEW j \in DOMAIN c.upstreams, NEW k \in DOMAIN c.upstreams,
                      tab.upstreams[j] = tab.upstreams[k]
               PROVE  j = k
    BY <1>4, Zenon
  <2>1. CASE j \in new /\ k \in new
    BY <1>2, <1>3, <1>5, <2>1
  <2>2. CASE j \in DOMAIN prev.upstreams /\ k \in DOMAIN prev.upstreams
    BY <1>4, <2>2, Zenon DEF OwnBreakers
  <2>3. QED
    BY <1>2, <1>7, <1>8, <2>1, <2>2
<1>10. ids = {tab.upstreams[n] : n \in new}
  BY <1>5, Zenon
<1>11. DOMAIN f = DOMAIN tuning \cup ids
  <2>1. DOMAIN f = DOMAIN tuning \cup {tab.upstreams[n] : n \in DOMAIN c.upstreams}
    BY <1>4, Zenon DEF Retuned, Range
  <2>2. QED
    BY <1>1, <1>8, <1>10, <2>1, Zenon
<1>12. IsFiniteSet(ids) /\ Cardinality(ids) = Cardinality(new)
  <2> DEFINE g == [n \in new |-> N + rank(n)]
  <2>1. g \in [new -> ids]
    BY Zenon
  <2>2. \A j, k \in new : g[j] = g[k] => j = k
    BY <1>2, <1>3
  <2>3. \A b \in ids : \E n \in new : g[n] = b
    BY Zenon
  <2> HIDE DEF g, ids
  <2>4. g \in Injection(new, ids) /\ g \in Surjection(new, ids)
    BY <2>1, <2>2, <2>3, Zenon DEF Injection, IsInjective, Surjection
  <2>5. ExistsBijection(new, ids)
    BY <2>4, Zenon DEF ExistsBijection, Bijection
  <2>6. QED
    BY <1>1, <2>5, FS_Bijection, Zenon
<1>13. \A b \in ids : b \in (N + 1)..(N + Cardinality(new))
  BY <1>2, <1>3
<1> HIDE DEF ids
<1>14. Numbered(f)
  <2>1. DOMAIN tuning \cap ids = {}
    BY <1>2, <1>13
  <2>2. Cardinality(DOMAIN f) = N + Cardinality(new) /\ IsFiniteSet(DOMAIN f)
    <3>1. /\ IsFiniteSet(DOMAIN tuning \cup ids)
          /\ Cardinality(DOMAIN tuning \cup ids)
               = Cardinality(DOMAIN tuning) + Cardinality(ids) - Cardinality(DOMAIN tuning \cap ids)
      BY <1>2, <1>12, FS_Union, Zenon
    <3>2. Cardinality(DOMAIN tuning \cap ids) = 0
      BY <2>1, FS_EmptySet, Zenon
    <3>3. QED
      BY <1>2, <1>11, <1>12, <3>1, <3>2 DEF N
  <2>3. QED
    BY <1>2, <1>11, <1>13, <2>2 DEF Numbered
<1>15. OwnBreakers(tab, f)
  BY <1>4, <1>8, <1>9, <1>10, <1>11, Zenon DEF OwnBreakers
<1>16. Tuned(tab, f)
  <2> SUFFICES ASSUME NEW n \in DOMAIN tab.upstreams
               PROVE  f[tab.upstreams[n]] = tab.content.upstreams[n]
    BY Zenon DEF Tuned
  <2> DEFINE b == tab.upstreams[n]
             k == CHOOSE m \in DOMAIN tab.upstreams : tab.upstreams[m] = b
  <2>1. b \in Range(tab.upstreams)
    BY Zenon DEF Range
  <2>2. f[b] = tab.content.upstreams[k]
    BY <2>1, Zenon DEF Retuned
  <2>3. k = n
    BY <1>9, Zenon
  <2>4. QED
    BY <2>2, <2>3, Zenon
<1>17. SameBreakers(tab, prev)
  BY <1>4, Zenon DEF SameBreakers
<1>18. QED
  BY <1>4, <1>11, <1>14, <1>15, <1>16, <1>17, Zenon

-----------------------------------------------------------------------------
(* The steps *)

\* Nobody reloads, no table is live, nobody holds an upstream.
LEMMA ReloadInitInv == ReloadInit => ReloadInv
<1> SUFFICES ASSUME ReloadInit PROVE ReloadInv
  BY Zenon
<1>1. Shapes
  BY Zenon DEF ReloadInit, Shapes, Steps, NoTable
<1>2. Started
  BY Zenon DEF ReloadInit, Started
<1>3. Underway
  BY Zenon DEF ReloadInit, Underway, InReload
<1>4. Held
  BY Zenon DEF ReloadInit, Held
<1>5. DOMAIN tuning = {} /\ DOMAIN table.upstreams = {}
  BY Zenon DEF ReloadInit, NoTable
<1>6. Numbered(tuning)
  BY <1>5, FS_EmptySet, Zenon DEF Numbered
<1>7. OwnBreakers(table, tuning) /\ Tuned(table, tuning)
  BY <1>5, Zenon DEF OwnBreakers, Tuned
<1>8. QED
  BY <1>1, <1>2, <1>3, <1>4, <1>6, <1>7, Zenon DEF ReloadInv

\* A thread that is in Reloader::reload is alone there.
LEMMA ReloadsAreAlone ==
  ASSUME ReloadInv, NEW t \in Reloaders, InReload(t)
  PROVE  lock = t /\ \A u \in Reloaders \ {t} : ~InReload(u)
BY Zenon DEF ReloadInv, Underway

\* A step that touches no table, no breaker and no holder, and neither begins
\* nor ends the building of a table.
LEMMA QuietStep ==
  ASSUME ReloadInv,
         UNCHANGED <<table, fresh, tuning, gone, held>>,
         file' \in Contents,
         pc' \in [Reloaders -> Steps],
         \A t \in Reloaders : /\ pc'[t] = "build" <=> pc[t] = "build"
                              /\ pc'[t] = "store" <=> pc[t] = "store"
                              /\ InReload(t)' => lock' = t,
         Started'
  PROVE  ReloadInv'
<1>1. Shapes'
  BY Zenon DEF ReloadInv, Shapes
<1>2. Underway'
  BY Zenon DEF ReloadInv, Underway, SameBreakers
<1>3. Held'
  BY Zenon DEF ReloadInv, Held
<1>4. QED
  BY <1>1, <1>2, <1>3, Zenon DEF ReloadInv

\* What the operator, the file system and the waiting threads do.
LEMMA OutsideStep ==
  ASSUME ReloadInv, UNCHANGED <<main, lock, live, held>>,
         file' \in Contents,
         \/ UNCHANGED pc
         \/ Goto("watch", "wait", "coalesce")
         \/ Goto("watch", "coalesce", "lock")
         \/ Goto("hangup", "wait", "lock")
  PROVE  ReloadInv'
<1>1. UNCHANGED <<table, fresh, tuning, gone, held, main, lock>>
  BY Zenon DEF live
<1>2. pc' \in [Reloaders -> Steps]
  BY DEF ReloadInv, Shapes, Steps, Goto, Reloaders
<1>3. \A t \in Reloaders : /\ pc'[t] = "build" <=> pc[t] = "build"
                           /\ pc'[t] = "store" <=> pc[t] = "store"
                           /\ InReload(t)' => InReload(t)
                           /\ pc[t] = "off" => pc'[t] = "off"
  BY Zenon DEF ReloadInv, Shapes, Goto, Reloaders, InReload
<1>4. \A t \in Reloaders : InReload(t)' => lock' = t
  BY <1>1, <1>3, Zenon DEF ReloadInv, Underway
<1>5. Started'
  BY <1>1, <1>3, Zenon DEF ReloadInv, Started
<1>6. QED
  BY <1>1, <1>2, <1>3, <1>4, <1>5, QuietStep, Zenon

\* A step of main that builds nothing: main goes on, and nobody reloads yet.
LEMMA MainQuietInv ==
  ASSUME ReloadInv, MainTlsCert \/ MainTlsKey \/ MainSeenConfig \/ MainSeenCert \/ MainSeenKey
         \/ MainWatchFails
  PROVE  ReloadInv'
<1>1. UNCHANGED <<table, fresh, tuning, gone, held, file, pc, lock>>
  BY Zenon DEF MainTlsCert, MainTlsKey, MainSeenConfig, MainSeenCert, MainSeenKey,
     MainWatchFails, live, files
<1>2. main # "up" /\ main' # "up"
  BY Zenon DEF MainTlsCert, MainTlsKey, MainSeenConfig, MainSeenCert, MainSeenKey,
     MainWatchFails, Main
<1>3. main' \in {"tls_cert", "tls_key", "config"} => main \in {"tls_cert", "tls_key", "config"}
  BY Zenon DEF MainTlsCert, MainTlsKey, MainSeenConfig, MainSeenCert, MainSeenKey,
     MainWatchFails, Main
<1>4. Started'
  BY <1>1, <1>2, <1>3, Zenon DEF ReloadInv, Started
<1>5. \A t \in Reloaders : InReload(t)' => lock' = t
  BY <1>1, Zenon DEF ReloadInv, Underway, InReload
<1>6. file' \in Contents /\ pc' \in [Reloaders -> Steps]
  BY <1>1, Zenon DEF ReloadInv, Shapes
<1>7. QED
  BY <1>1, <1>4, <1>5, <1>6, QuietStep, Zenon

\* The first table: there is no previous one, so every breaker is new.
LEMMA MainConfigInv == ReloadInv /\ MainConfig => ReloadInv'
<1> SUFFICES ASSUME ReloadInv, MainConfig PROVE ReloadInv'
  BY Zenon
<1>1. /\ UNCHANGED <<file, pc, lock, fresh, gone, held>>
      /\ main = "config" /\ main' \in {"seen_config", "seen_cert", "exited"}
  BY Zenon DEF MainConfig, Main, files
<1>2. /\ table = NoTable /\ DOMAIN table.upstreams = {}
      /\ \A t \in Reloaders : pc[t] = "off"
  BY <1>1 DEF ReloadInv, Started, NoTable
<1>3. Shapes' /\ Started' /\ Underway'
  BY <1>1, <1>2, Zenon DEF ReloadInv, Shapes, Started, Underway, InReload
<1>4. Held'
  BY <1>1, <1>2, Zenon DEF ReloadInv, Held
<1>5. CASE UNCHANGED <<table, tuning>>
  BY <1>1, <1>3, <1>4, <1>5, Zenon DEF ReloadInv
<1>6. CASE table' = Rebuilt(file, NoTable) /\ tuning' = Retuned(table')
  <2>1. OwnBreakers(NoTable, tuning) /\ file \in Contents /\ Numbered(tuning)
    BY <1>2, Zenon DEF ReloadInv, Shapes
  <2>2. Numbered(tuning') /\ OwnBreakers(table', tuning') /\ Tuned(table', tuning')
    BY <1>6, <2>1, RebuiltIsSound, Zenon
  <2>3. QED
    BY <1>3, <1>4, <2>2, Zenon DEF ReloadInv
<1>7. QED
  BY <1>5, <1>6, Zenon DEF MainConfig

\* The watch thread starts with a reload, outside the mutex.
LEMMA MainWatchInv == ReloadInv /\ MainWatch => ReloadInv'
<1> SUFFICES ASSUME ReloadInv, MainWatch PROVE ReloadInv'
  BY Zenon
<1>1. /\ UNCHANGED <<table, fresh, tuning, gone, held, file, lock>>
      /\ main = "watch" /\ main' = "up"
      /\ pc' = [pc EXCEPT !["watch"] = "lock", !["hangup"] = "wait"]
  BY Zenon DEF MainWatch, Main, live, files
<1>2. \A t \in Reloaders : pc[t] = "off" /\ pc'[t] \in {"lock", "wait"}
  BY <1>1, Zenon DEF ReloadInv, Started, Shapes, Reloaders
<1>3. /\ file' \in Contents
      /\ pc' \in [Reloaders -> Steps]
  BY <1>1, Zenon DEF ReloadInv, Shapes, Steps, Reloaders
<1>4. Started'
  BY <1>1, Zenon DEF Started
<1>5. \A t \in Reloaders : ~InReload(t)'
  BY <1>2, Zenon DEF InReload
<1>6. QED
  BY <1>1, <1>2, <1>3, <1>4, <1>5, QuietStep, Zenon

\* The mutex: whoever finds it free is alone.
LEMMA LockInv ==
  ASSUME ReloadInv, NEW t \in Reloaders, Lock(t)
  PROVE  ReloadInv'
<1>1. /\ UNCHANGED <<table, fresh, tuning, gone, held, file, main>>
      /\ pc[t] = "lock" /\ lock = None /\ lock' = t
      /\ pc' = [pc EXCEPT ![t] = IF HasConfig THEN "config" ELSE "hash_cert"]
  BY Zenon DEF Lock, Goto, live, files
<1>2. \A u \in Reloaders : ~InReload(u)
  BY <1>1, ReloadAssumption, Zenon DEF ReloadInv, Underway, Reloaders
<1>3. \A u \in Reloaders \ {t} : pc'[u] = pc[u]
  BY <1>1, Zenon DEF ReloadInv, Shapes
<1>4. pc'[t] \in {"config", "hash_cert"}
  BY <1>1, Zenon DEF ReloadInv, Shapes
<1>5. \A u \in Reloaders : InReload(u)' => u = t
  BY <1>2, <1>3, Zenon DEF InReload
<1>6. /\ file' \in Contents
      /\ pc' \in [Reloaders -> Steps]
  BY <1>1, Zenon DEF ReloadInv, Shapes, Steps
<1>7. Started'
  BY <1>1, Zenon DEF ReloadInv, Started
<1>8. QED
  BY <1>1, <1>3, <1>4, <1>5, <1>6, <1>7, QuietStep, Zenon

\* A step under the mutex that builds no table: on to the next one, or out.
LEMMA UnderLockInv ==
  ASSUME ReloadInv, NEW t \in Reloaders, InReload(t), pc[t] \notin {"build", "store"},
         NEW to \in {"wait", "hash_cert", "hash_key", "load_cert", "load_key"},
         pc' = [pc EXCEPT ![t] = to],
         lock' = lock \/ Unlock(t),
         UNCHANGED <<table, fresh, tuning, gone, held, file, main>>
  PROVE  ReloadInv'
<1>1. lock = t /\ \A u \in Reloaders \ {t} : ~InReload(u)
  BY ReloadsAreAlone, Zenon
<1>2. /\ pc'[t] = to
      /\ \A u \in Reloaders \ {t} : pc'[u] = pc[u]
      /\ pc' \in [Reloaders -> Steps]
  BY Zenon DEF ReloadInv, Shapes, Steps
<1>3. \A u \in Reloaders : InReload(u)' => u = t
  BY <1>1, <1>2, Zenon DEF InReload
<1>4. InReload(t)' => lock' = t
  BY <1>1, <1>2, Zenon DEF InReload, Unlock
<1>5. Started'
  BY <1>2, Zenon DEF ReloadInv, Started, InReload
<1>6. file' \in Contents
  BY Zenon DEF ReloadInv, Shapes
<1>7. QED
  BY <1>2, <1>3, <1>4, <1>5, <1>6, QuietStep, Zenon

\* The certificate's part of a reload.
LEMMA CertificateInv ==
  ASSUME ReloadInv, NEW t \in Reloaders,
         HashCert(t) \/ HashKey(t) \/ LoadCert(t) \/ LoadKey(t)
  PROVE  ReloadInv'
<1>1. /\ UNCHANGED <<table, fresh, tuning, gone, held, file, main>>
      /\ lock' = lock \/ Unlock(t)
  BY Zenon DEF HashCert, HashKey, LoadCert, LoadKey, live, files
<1>2. InReload(t) /\ pc[t] \notin {"build", "store"}
  BY Zenon DEF HashCert, HashKey, LoadCert, LoadKey, Goto, InReload
<1>3. \E to \in {"wait", "hash_cert", "hash_key", "load_cert", "load_key"} :
        pc' = [pc EXCEPT ![t] = to]
  BY Zenon DEF HashCert, HashKey, LoadCert, LoadKey, Goto
<1>4. QED
  BY <1>1, <1>2, <1>3, UnderLockInv, Zenon

\* The config is read: it is to be built, or the tables stay as they are.
LEMMA ReadConfigInv ==
  ASSUME ReloadInv, NEW t \in Reloaders, ReadConfig(t)
  PROVE  ReloadInv'
<1>1. /\ UNCHANGED <<table, tuning, gone, held, file, main>> /\ Unlock(t)
      /\ pc[t] = "config" /\ InReload(t)
  BY Zenon DEF ReadConfig, Goto, files, InReload
<1>2. CASE UNCHANGED fresh /\ pc' = [pc EXCEPT ![t] = AfterConfig]
  BY <1>1, <1>2, UnderLockInv, Zenon DEF AfterConfig
<1>3. CASE fresh' = [fresh EXCEPT ![t].content = file] /\ pc' = [pc EXCEPT ![t] = "build"]
  <2>1. lock = t /\ \A u \in Reloaders \ {t} : ~InReload(u)
    BY <1>1, ReloadsAreAlone, Zenon
  <2>2. /\ pc'[t] = "build"
        /\ \A u \in Reloaders \ {t} : pc'[u] = pc[u]
        /\ pc' \in [Reloaders -> Steps]
    BY <1>3, Zenon DEF ReloadInv, Shapes, Steps
  <2>3. /\ DOMAIN fresh' = Reloaders
        /\ fresh'[t] = [content |-> file, upstreams |-> fresh[t].upstreams]
        /\ \A u \in Reloaders \ {t} : fresh'[u] = fresh[u]
    BY <1>3 DEF ReloadInv, Shapes
  <2>4. Shapes'
    BY <1>1, <2>2, <2>3, Zenon DEF ReloadInv, Shapes
  <2>5. Started'
    BY <1>1, <2>2, Zenon DEF ReloadInv, Started
  <2>6. lock' = t
    BY <1>1, <2>1, <2>2, Zenon DEF Unlock
  <2>7. Underway'
    BY <1>1, <2>1, <2>2, <2>3, <2>6 DEF ReloadInv, Shapes, Underway, InReload
  <2>8. Held'
    BY <1>1, Zenon DEF ReloadInv, Held
  <2>9. (\A u \in Reloaders : pc'[u] # "store") => Tuned(table', tuning')
    BY <1>1, <2>1, <2>2, Zenon DEF ReloadInv, InReload
  <2>10. QED
    BY <1>1, <2>4, <2>5, <2>7, <2>8, <2>9, Zenon DEF ReloadInv
<1>4. QED
  BY <1>2, <1>3, Zenon DEF ReadConfig, Goto

\* The next table is built from the live one: its breakers are retuned at once,
\* before it is stored.
LEMMA BuildStepInv ==
  ASSUME ReloadInv, NEW t \in Reloaders, Build(t)
  PROVE  ReloadInv'
<1>1. /\ UNCHANGED <<table, gone, held, file, main, lock>>
      /\ pc[t] = "build" /\ pc' = [pc EXCEPT ![t] = "store"] /\ InReload(t)
      /\ fresh' = [fresh EXCEPT ![t] = Rebuilt(fresh[t].content, table)]
      /\ tuning' = Retuned(fresh'[t])
  BY Zenon DEF Build, Goto, files, InReload
<1>2. lock = t /\ \A u \in Reloaders \ {t} : ~InReload(u)
  BY <1>1, ReloadsAreAlone, Zenon
<1>3. /\ pc'[t] = "store"
      /\ \A u \in Reloaders \ {t} : pc'[u] = pc[u]
      /\ pc' \in [Reloaders -> Steps]
  BY <1>1, Zenon DEF ReloadInv, Shapes, Steps
<1>4. /\ DOMAIN fresh' = Reloaders
      /\ fresh'[t] = Rebuilt(fresh[t].content, table)
      /\ \A u \in Reloaders \ {t} : fresh'[u] = fresh[u]
  BY <1>1, Zenon DEF ReloadInv, Shapes
<1>5. fresh[t].content \in Contents /\ Numbered(tuning) /\ OwnBreakers(table, tuning)
  BY <1>1, Zenon DEF ReloadInv, Underway
<1>6. /\ fresh'[t] = [content |-> fresh'[t].content, upstreams |-> fresh'[t].upstreams]
      /\ Numbered(tuning') /\ OwnBreakers(fresh'[t], tuning') /\ Tuned(fresh'[t], tuning')
      /\ SameBreakers(fresh'[t], table)
      /\ DOMAIN tuning \subseteq DOMAIN tuning'
  BY <1>1, <1>4, <1>5, RebuiltIsSound
<1>7. Shapes'
  BY <1>1, <1>3, <1>4, <1>6, Zenon DEF ReloadInv, Shapes
<1>8. Started'
  BY <1>1, <1>3, Zenon DEF ReloadInv, Started
<1>9. Underway'
  BY <1>1, <1>2, <1>3, <1>6, Zenon DEF Underway, InReload
<1>10. Held'
  BY <1>1, Zenon DEF ReloadInv, Held
<1>11. OwnBreakers(table', tuning')
  BY <1>1, <1>5, <1>6, SMTT(30) DEF OwnBreakers
<1>12. QED
  BY <1>3, <1>6, <1>7, <1>8, <1>9, <1>10, <1>11, Zenon DEF ReloadInv

\* The built table goes live: an upstream in both keeps its breaker.
LEMMA StoreInv ==
  ASSUME ReloadInv, NEW t \in Reloaders, Store(t)
  PROVE  ReloadInv'
<1>1. /\ UNCHANGED <<tuning, held, file, main>> /\ Unlock(t)
      /\ pc[t] = "store" /\ pc' = [pc EXCEPT ![t] = AfterConfig] /\ InReload(t)
      /\ table' = fresh[t] /\ fresh' = [fresh EXCEPT ![t] = NoTable]
      /\ gone' = gone \cup (DOMAIN table.upstreams \ DOMAIN table'.upstreams)
  BY Zenon DEF Store, Goto, files, InReload
<1>2. lock = t /\ \A u \in Reloaders \ {t} : ~InReload(u)
  BY <1>1, ReloadsAreAlone, Zenon
<1>3. /\ pc'[t] \in {"hash_cert", "wait"}
      /\ \A u \in Reloaders \ {t} : pc'[u] = pc[u]
      /\ pc' \in [Reloaders -> Steps]
  BY <1>1, Zenon DEF ReloadInv, Shapes, Steps, AfterConfig
<1>4. /\ DOMAIN fresh' = Reloaders /\ fresh'[t] = NoTable
      /\ \A u \in Reloaders \ {t} : fresh'[u] = fresh[u]
  BY <1>1, Zenon DEF ReloadInv, Shapes
<1>5. OwnBreakers(table', tuning') /\ Tuned(table', tuning') /\ SameBreakers(table', table)
  BY <1>1, Zenon DEF ReloadInv, Underway
<1>6. Shapes'
  BY <1>1, <1>3, <1>4, Zenon DEF ReloadInv, Shapes, NoTable
<1>7. Started'
  BY <1>1, <1>3, Zenon DEF ReloadInv, Started
<1>8. pc'[t] # "wait" => lock' = t
  BY <1>1, <1>2, Zenon DEF Unlock
<1>9. Underway'
  BY <1>2, <1>3, <1>8, Zenon DEF Underway, InReload
<1>10. Held'
  <2> SUFFICES ASSUME NEW h \in Holders, held'[h] # None, held'[h].name \notin gone'
               PROVE  /\ held'[h].name \in DOMAIN table'.upstreams
                      /\ table'.upstreams[held'[h].name] = held'[h].breaker
    BY Zenon DEF Held
  <2>1. /\ held[h].name \in DOMAIN table.upstreams
        /\ table.upstreams[held[h].name] = held[h].breaker
    BY <1>1, Zenon DEF ReloadInv, Held
  <2>2. QED
    BY <1>1, <1>5, <2>1, Zenon DEF SameBreakers
<1>11. Numbered(tuning')
  BY <1>1, Zenon DEF ReloadInv
<1>12. QED
  BY <1>5, <1>6, <1>7, <1>9, <1>10, <1>11, Zenon DEF ReloadInv

\* A holder takes an upstream from the live table, or lets go of it.
LEMMA HolderInv ==
  ASSUME ReloadInv, NEW h \in Holders, Take(h) \/ Report(h)
  PROVE  ReloadInv'
<1>1. UNCHANGED <<table, fresh, tuning, gone, file, main, pc, lock>>
  BY Zenon DEF Take, Report, live, files, threads
<1>2. /\ DOMAIN held' = Holders
      /\ \A g \in Holders \ {h} : held'[g] = held[g]
      /\ \/ held'[h] = None
         \/ \E n \in DOMAIN table.upstreams :
              held'[h] = [name |-> n, breaker |-> table.upstreams[n]]
  BY Zenon DEF ReloadInv, Shapes, Take, Report
<1>3. Held'
  BY <1>1, <1>2, SMTT(30) DEF ReloadInv, Held
<1>4. Shapes' /\ Started' /\ Underway'
  BY <1>1, <1>2, ZenonT(40) DEF ReloadInv, Shapes, Started, Underway, InReload, SameBreakers
<1>5. QED
  BY <1>1, <1>3, <1>4, Zenon DEF ReloadInv

\* The inductive invariant, for every set of configs, setups and holders.
LEMMA ReloadInvariant == ReloadSpec => []ReloadInv
<1>1. ASSUME ReloadInv, [ReloadNext]_rvars PROVE ReloadInv'
  <2>1. CASE Edit
    BY <1>1, <2>1, OutsideStep, Zenon DEF Edit, threads, ReloadInv, Shapes
  <2>2. CASE Churn \/ Sighup \/ Coalesce \/ UNCHANGED rvars
    BY <1>1, <2>2, OutsideStep, Zenon
       DEF Churn, Sighup, Coalesce, rvars, files, threads, live, ReloadInv, Shapes
  <2>3. CASE MainStep
    BY <1>1, <2>3, MainQuietInv, MainConfigInv, MainWatchInv, SMTT(30) DEF MainStep
  <2>4. CASE Receive \/ Settle \/ TakeSighup
    BY <1>1, <2>4, OutsideStep, Zenon DEF Receive, Settle, TakeSighup, files, ReloadInv, Shapes
  <2>5. ASSUME NEW t \in Reloaders, Lock(t) \/ ReloadStep(t) PROVE ReloadInv'
    BY <1>1, <2>5, LockInv, ReadConfigInv, BuildStepInv, StoreInv, CertificateInv, Zenon
       DEF ReloadStep
  <2>6. ASSUME NEW h \in Holders, Take(h) \/ Report(h) PROVE ReloadInv'
    BY <1>1, <2>6, HolderInv, Zenon
  <2>7. QED
    BY <1>1, <2>1, <2>2, <2>3, <2>4, <2>5, <2>6, Zenon DEF ReloadNext, WatchStep
<1>2. QED
  BY <1>1, ReloadInitInv, PTL DEF ReloadSpec

\* A result that comes in after any number of reloads, by either thread and in
\* any interleaving, reaches the breaker the live table uses, unless its
\* upstream was dropped meanwhile.
THEOREM ResultsAreNotStranded == ReloadSpec => []ResultsReachTheLiveBreaker
<1>1. ReloadInv => ResultsReachTheLiveBreaker
  BY Zenon DEF ReloadInv, Held, ResultsReachTheLiveBreaker
<1>2. QED
  BY <1>1, ReloadInvariant, PTL

\* Whenever no reload is underway, every breaker in use is tuned as the live
\* table's config says.
THEOREM BreakersFollowTheConfig == ReloadSpec => []LiveBreakersAreTuned
<1>1. ReloadInv => LiveBreakersAreTuned
  <2> SUFFICES ASSUME ReloadInv, lock = None PROVE Tuned(table, tuning)
    BY Zenon DEF LiveBreakersAreTuned, Tuned
  <2>1. \A t \in Reloaders : pc[t] # "store"
    BY ReloadAssumption, Zenon DEF ReloadInv, Underway, InReload, Reloaders
  <2>2. QED
    BY <2>1, Zenon DEF ReloadInv
<1>2. QED
  BY <1>1, ReloadInvariant, PTL

-----------------------------------------------------------------------------
(* The threshold of a breaker that reloads retune *)

\* Type correctness and the threshold.
CInv == CircuitTypeOK /\ ClosedBelowThreshold

\* The configuration in force is one of Configs.
LEMMA ConfigInForce ==
  ASSUME CircuitTypeOK
  PROVE  /\ cooldown \in 0..Cap /\ threshold \in Nat \ {0}
         /\ \E c \in Configs : c.threshold = threshold
  BY CapAssumption, Zenon DEF CircuitTypeOK

\* The invariant at the start.
LEMMA CInvInit == CircuitInit => CInv
<1> SUFFICES ASSUME CircuitInit PROVE CInv
  BY Zenon
<1>1. PICK c \in Configs : cooldown = c.cooldown /\ threshold = c.threshold
  BY Zenon DEF CircuitInit
<1>2. [cooldown |-> cooldown, threshold |-> threshold] \in Configs /\ 0 < c.threshold
  BY <1>1, CapAssumption
<1> QED
  BY <1>2, CapAssumption DEF CircuitInit, CInv, CircuitTypeOK, ClosedBelowThreshold

\* What the users of the breaker do.
LEMMA CInvUser ==
  ASSUME CInv, NEW t \in Users,
         Admit(t) \/ Release(t) \/ Succeed(t) \/ Fail(t) \/ Lose(t) \/ Check(t)
  PROVE  CInv'
<1> USE DEF CInv, config, times
<1>1. CASE Admit(t)
  BY <1>1, CapAssumption DEF Admit, CircuitTypeOK, ClosedBelowThreshold
<1>2. CASE Release(t)
  <2>1. (IF uptime < cooldown THEN uptime ELSE cooldown) \in 0..Cap /\ 0 \in 0..Cap
    BY ConfigInForce, CapAssumption DEF CircuitTypeOK
  <2> QED
    BY <1>2, <2>1, Zenon DEF Release, GiveUp, CircuitTypeOK, ClosedBelowThreshold
<1>3. CASE Succeed(t)
  <2>1. CircuitTypeOK'
    BY <1>3 DEF Succeed, GiveUp, CircuitTypeOK
  <2>2. count' = 0 \/ (UNCHANGED count /\ UNCHANGED circuit)
    BY <1>3, Zenon DEF Succeed
  <2>3. \E c \in Configs : 0 < c.threshold
    BY ConfigInForce
  <2> QED
    BY <2>1, <2>2, <2>3, Zenon DEF ClosedBelowThreshold
\* A count that reaches the threshold in force does not stay with a closed circuit.
<1>4. CASE Fail(t)
  <2>1. CircuitTypeOK'
    BY <1>4, CapAssumption DEF Fail, Open, GiveUp, CircuitTypeOK
  <2>2. circuit' = "Closed" => count' < threshold \/ UNCHANGED <<circuit, count>>
    BY <1>4, ConfigInForce DEF Fail, Open, CircuitTypeOK
  <2> QED
    BY <2>1, <2>2, ConfigInForce, Zenon DEF ClosedBelowThreshold
<1>5. CASE Lose(t) \/ Check(t)
  BY <1>5, Zenon DEF Lose, Check, GiveUp, CircuitTypeOK, ClosedBelowThreshold
<1> QED
  BY <1>1, <1>2, <1>3, <1>4, <1>5, Zenon

\* Reloads and time.
LEMMA CInvRest == CInv /\ (Retune \/ Elapse \/ UNCHANGED cvars) => CInv'
<1> USE DEF CInv, config, times
<1>1. CInv /\ Retune => CInv'
  BY CapAssumption, Zenon DEF Retune, CircuitTypeOK, ClosedBelowThreshold
<1>2. CInv /\ Elapse => CInv'
  <2> SUFFICES ASSUME CInv, Elapse PROVE CInv'
    BY Zenon
  <2>1. \A a \in 0..Cap : Capped(a + 1) \in 0..Cap
    BY CapAssumption DEF Capped
  <2> QED
    BY <2>1, Zenon DEF Elapse, CircuitTypeOK, ClosedBelowThreshold
<1>3. CInv /\ UNCHANGED cvars => CInv'
  BY Zenon DEF cvars, CircuitTypeOK, ClosedBelowThreshold
<1> QED
  BY <1>1, <1>2, <1>3, Zenon

\* A closed circuit is below a configured threshold, for any number of callers
\* and health probes and any configurations (record_failure opens it in the
\* call that reaches the threshold, record_success starts a new count).
THEOREM ThresholdOpens == CircuitSpec => []ClosedBelowThreshold
<1>1. CInv /\ [CircuitNext]_cvars => CInv'
  BY CInvUser, CInvRest, Zenon DEF CircuitNext
<1>2. CInv => ClosedBelowThreshold
  BY Zenon DEF CInv
<1> QED
  BY CInvInit, <1>1, <1>2, PTL DEF CircuitSpec

===============================================================================
