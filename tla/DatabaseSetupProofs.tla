-------------------------- MODULE DatabaseSetupProofs --------------------------
(***************************************************************************)
(* Proofs about DatabaseSetup, for every set of jobs, servers, releases    *)
(* and identities, every manifest without repeated names, and any number   *)
(* of runs.  IInv is the inductive invariant: what an open migration       *)
(* transaction has executed completes the history to the part of its       *)
(* manifest it has dealt with, and what a job has found in one             *)
(* transaction, or a server in one statement, still holds in the next.     *)
(***************************************************************************)
EXTENDS DatabaseSetup, SequenceTheorems, TLAPS

ManifestFor(j) == Manifest[config[j].release]
PackagedFor(j) == Packaged(config[j].release)

\* The advisory lock of the migrations and the key of the identity are exclusive, and
\* whoever holds the key has found the database unbound.
LockInv ==
  /\ \A j, k \in Jobs : HoldsLock(j) /\ HoldsLock(k) => j = k
  /\ \A j, k \in Jobs : HoldsKey(j) /\ HoldsKey(k) => j = k
  /\ \A j \in Jobs : HoldsKey(j) => identity = Unbound

\* A transaction that has dealt with the first n migrations of manifest m: each is in
\* the history h or in its work w, and its work holds nothing else and nothing that is
\* recorded.  An audit job continues the history where it ends.
Continues(t, h, w, n, m) ==
  /\ n <= Len(m)
  /\ \A i \in 1..n : \/ \E a \in 1..Len(h) : h[a] = m[i]
                     \/ \E a \in 1..Len(w) : w[a] = m[i]
  /\ \A a \in 1..Len(w) : /\ \E i \in 1..n : w[a] = m[i]
                          /\ \A b \in 1..Len(h) : h[b].name # w[a].name
  /\ \A a, b \in 1..Len(w) : w[a].name = w[b].name => a = b
  /\ t = "audit" => /\ n = Len(h) + Len(w)
                    /\ \A a \in 1..Len(h) : h[a] = m[a]
                    /\ \A a \in 1..Len(w) : w[a] = m[Len(h) + a]

WorkSound(j) == pc[j] = "apply" => Continues(target, history, work[j], pos[j], ManifestFor(j))

\* A job begins without work, binds and grants on a database that has its release's
\* migrations, and has a reason only when it was refused.
PhaseSound(j) ==
  /\ pc[j] = "lock" => work[j] = <<>>
  /\ pc[j] \in {"lookup", "insert", "bind", "grant", "done"} => PackagedFor(j) \subseteq Applied
  /\ pc[j] = "insert" => found[j] # config[j].want
  /\ pc[j] \in {"grant", "done"} => identity = config[j].want
  /\ why[j] # "none" => pc[j] = "refused"
  /\ why[j] = "bound" => identity # Unbound

\* The reason of a refusal, as RefusalIsJustified states it.
Justified(j, reason) ==
  /\ reason = "drift" =>
       \/ \E a \in Applied, m \in PackagedFor(j) : a.name = m.name /\ a.sha # m.sha
       \/ target = "audit" /\ ~IsPrefix(history, ManifestFor(j))
  /\ reason = "extension" => site = "ancient"
  /\ reason = "bound" => identity # config[j].want
  /\ reason = "key" => identity # Unbound /\ found[j] # config[j].want
  /\ reason = "authority" => config[j].bypass

\* Migrations that alter a checked table and answers that have checked it exclude each
\* other.
TableInv == \A j \in Jobs, s \in Servers : ~(Alters(j) /\ KeepsTable(s))

\* A server serves an identity.  Its snapshot shows the one the database is bound to or none,
\* and what it has checked holds until it queries.
ServerSound(s) ==
  /\ server[s].state # "down" => server[s].want \in Identities
  /\ server[s].state = "begun" => server[s].view.identity \in {Unbound, identity}
  /\ server[s].state = "checked" => identity = server[s].want
  /\ server[s].state = "checked" /\ target = "knowledge" =>
       RightHistory(s, server[s].view) /\ server[s].seen = Altered

ServerInv ==
  /\ DOMAIN server = Servers
  /\ \A s \in Servers : ServerSound(s)
  /\ \A a \in answers : a.want \in Identities /\ identity = a.want

IInv == /\ TypeOK /\ LockInv /\ TableInv /\ ServerInv /\ HistoriesAreWhole /\ AnswersFitSchema
        /\ \A j \in Jobs : WorkSound(j) /\ PhaseSound(j) /\ Justified(j, why[j])

-----------------------------------------------------------------------------
(* Manifests and histories *)

\* A manifest is a sequence of migrations.
LEMMA ManifestType ==
  ASSUME NEW r \in Releases
  PROVE  Manifest[r] \in Seq(Migrations) /\ Len(Manifest[r]) \in Nat
<1>1. Manifest[r] \in Seq([name : Nat, sha : Nat]) /\ Len(Manifest[r]) \in Nat
  BY SetupAssumption
<1>2. \A i \in 1..Len(Manifest[r]) : Manifest[r][i] \in Migrations
  BY DEF Migrations
<1>3. SubSeq(Manifest[r], 1, Len(Manifest[r])) \in Seq(Migrations)
  BY <1>1, <1>2, SubSeqProperties
<1> QED
  BY <1>1, <1>3, SubSeqFull

\* A prefix has the elements of the manifest at the same places.
LEMMA PrefixPointwise ==
  ASSUME NEW S, NEW h \in Seq(S), NEW m \in Seq(S)
  PROVE  IsPrefix(h, m) <=> Len(h) <= Len(m) /\ \A n \in 1..Len(h) : h[n] = m[n]
<1>1. Len(h) \in Nat /\ Len(m) \in Nat
  BY LenProperties
<1>2. CASE Len(h) > Len(m)
  BY <1>1, <1>2 DEF IsPrefix
<1>3. CASE Len(h) <= Len(m)
  <2>1. /\ SubSeq(m, 1, Len(h)) \in Seq(S) /\ Len(SubSeq(m, 1, Len(h))) = Len(h)
        /\ \A n \in 1..Len(h) : SubSeq(m, 1, Len(h))[n] = m[n]
    <3>1. \A n \in 1..Len(h) : m[n] \in S
      BY <1>1, <1>3, ElementOfSeq
    <3> QED
      BY <1>1, <1>3, <3>1, SubSeqProperties
  <2>2. (\A n \in 1..Len(h) : h[n] = m[n]) => h = SubSeq(m, 1, Len(h))
    BY <2>1, SeqEqual
  <2> QED
    BY <1>3, <2>1, <2>2 DEF IsPrefix
<1> QED
  BY <1>1, <1>2, <1>3

\* A history that has left a manifest does not come back to it.
LEMMA DriftLasts ==
  ASSUME NEW S, NEW h \in Seq(S), NEW w \in Seq(S), NEW m \in Seq(S), IsPrefix(h \o w, m)
  PROVE  IsPrefix(h, m)
<1>1. /\ h \o w \in Seq(S) /\ Len(h \o w) = Len(h) + Len(w)
      /\ \A i \in 1 .. Len(h) + Len(w) :
           (h \o w)[i] = IF i <= Len(h) THEN h[i] ELSE w[i - Len(h)]
  BY ConcatProperties
<1>2. Len(h) \in Nat /\ Len(w) \in Nat /\ Len(m) \in Nat
  BY LenProperties
<1>3. Len(h \o w) <= Len(m) /\ \A n \in 1..Len(h \o w) : (h \o w)[n] = m[n]
  BY <1>1, PrefixPointwise
<1>4. Len(h) <= Len(m) /\ \A n \in 1..Len(h) : h[n] = m[n]
  BY <1>1, <1>2, <1>3
<1> QED
  BY <1>4, PrefixPointwise

\* The job's own manifest, and where its configuration comes from.
LEMMA ConfigFacts ==
  ASSUME TypeOK, NEW j \in Jobs
  PROVE  /\ config[j].release \in Releases /\ config[j].want \in Identities
         /\ config[j].want # Unbound
         /\ ManifestFor(j) \in Seq(Migrations) /\ Len(ManifestFor(j)) \in Nat
         /\ \A i, k \in 1..Len(ManifestFor(j)) :
              ManifestFor(j)[i].name = ManifestFor(j)[k].name => i = k
<1>1. config[j].release \in Releases /\ config[j].want \in Identities
  BY ConfigAssumption DEF TypeOK
<1> QED
  BY <1>1, ManifestType, SetupAssumption, ManifestAssumption DEF ManifestFor

\* A migration is its name and its digest.
LEMMA SameMigration ==
  ASSUME NEW a \in Migrations, NEW b \in Migrations, a.name = b.name, a.sha = b.sha
  PROVE  a = b
<1>1. \A r \in Releases : \A i \in 1..Len(Manifest[r]) : Manifest[r][i] \in [name : Nat, sha : Nat]
  BY SetupAssumption, ElementOfSeq
<1>2. Migrations \subseteq [name : Nat, sha : Nat]
  BY <1>1 DEF Migrations
<1> QED
  BY <1>2

\* Dealing with one more migration: it is executed when no recorded one has its name,
\* and skipped when it is recorded.
LEMMA ContinueStep ==
  ASSUME NEW S, NEW t, NEW h \in Seq(S), NEW w \in Seq(S), NEW m \in Seq(S),
         NEW n \in Nat, n < Len(m), Continues(t, h, w, n, m),
         \A i, k \in 1..Len(m) : m[i].name = m[k].name => i = k
  PROVE  /\ (\A b \in 1..Len(h) : h[b].name # m[n + 1].name)
              => Continues(t, h, Append(w, m[n + 1]), n + 1, m)
         /\ (\E b \in 1..Len(h) : h[b] = m[n + 1]) => Continues(t, h, w, n + 1, m)
<1>1. Len(h) \in Nat /\ Len(w) \in Nat /\ Len(m) \in Nat /\ n + 1 \in 1..Len(m)
  BY LenProperties
<1>2. /\ \A i \in 1..n : \/ \E a \in 1..Len(h) : h[a] = m[i]
                         \/ \E a \in 1..Len(w) : w[a] = m[i]
      /\ \A a \in 1..Len(w) : \E i \in 1..n : w[a] = m[i]
  BY DEF Continues
<1>3. /\ \A a \in 1..Len(w) : \A b \in 1..Len(h) : h[b].name # w[a].name
      /\ \A a, b \in 1..Len(w) : w[a].name = w[b].name => a = b
  BY DEF Continues
<1>4. t = "audit" => /\ n = Len(h) + Len(w)
                     /\ \A a \in 1..Len(h) : h[a] = m[a]
                     /\ \A a \in 1..Len(w) : w[a] = m[Len(h) + a]
  BY DEF Continues
<1>5. \A i \in 1..n + 1 : i \in 1..n \/ i = n + 1
  OBVIOUS
<1>6. ASSUME NEW b \in 1..Len(h), h[b] = m[n + 1]
      PROVE  Continues(t, h, w, n + 1, m)
  <2>1. t # "audit"
    <3> SUFFICES ASSUME t = "audit" PROVE FALSE
      OBVIOUS
    <3>1. b \in 1..Len(m) /\ h[b] = m[b] /\ b <= n
      BY <1>1, <1>4
    <3>2. m[b].name = m[n + 1].name
      BY <1>6, <3>1
    <3>3. b = n + 1
      BY <1>1, <3>1, <3>2
    <3> QED
      BY <3>1, <3>3
  <2>2. \A i \in 1..n + 1 : \/ \E a \in 1..Len(h) : h[a] = m[i]
                            \/ \E a \in 1..Len(w) : w[a] = m[i]
    BY <1>2, <1>5, <1>6
  <2>3. \A a \in 1..Len(w) : \E i \in 1..n + 1 : w[a] = m[i]
    BY <1>2
  <2> QED
    BY <1>1, <1>3, <2>1, <2>2, <2>3 DEF Continues
<1>7. ASSUME \A b \in 1..Len(h) : h[b].name # m[n + 1].name
      PROVE  Continues(t, h, Append(w, m[n + 1]), n + 1, m)
  <2> DEFINE v == Append(w, m[n + 1])
  <2>1. /\ Len(v) = Len(w) + 1 /\ v[Len(w) + 1] = m[n + 1]
        /\ \A a \in 1..Len(w) : v[a] = w[a]
    BY <1>1, ElementOfSeq, AppendProperties
  <2> HIDE DEF v
  <2>2. \A a \in 1..Len(v) : \/ a \in 1..Len(w) /\ v[a] = w[a]
                             \/ a = Len(w) + 1 /\ v[a] = m[n + 1]
    BY <1>1, <2>1
  <2>3. \A i \in 1..n + 1 : \/ \E a \in 1..Len(h) : h[a] = m[i]
                            \/ \E a \in 1..Len(v) : v[a] = m[i]
    <3> SUFFICES ASSUME NEW i \in 1..n + 1
                 PROVE  \/ \E a \in 1..Len(h) : h[a] = m[i]
                        \/ \E a \in 1..Len(v) : v[a] = m[i]
      OBVIOUS
    <3>1. Len(w) + 1 \in 1..Len(v) /\ \A a \in 1..Len(w) : a \in 1..Len(v)
      BY <1>1, <2>1
    <3>2. CASE i = n + 1
      BY <2>1, <3>1, <3>2
    <3>3. CASE i \in 1..n
      BY <1>2, <2>1, <3>1, <3>3
    <3> QED
      BY <1>5, <3>2, <3>3
  <2>4. ASSUME NEW a \in 1..Len(v)
        PROVE  /\ \E i \in 1..n + 1 : v[a] = m[i]
               /\ \A b \in 1..Len(h) : h[b].name # v[a].name
    <3>1. n + 1 \in 1..n + 1 /\ \A i \in 1..n : i \in 1..n + 1
      OBVIOUS
    <3>2. CASE a \in 1..Len(w) /\ v[a] = w[a]
      BY <1>2, <1>3, <3>1, <3>2
    <3>3. CASE v[a] = m[n + 1]
      BY <1>7, <3>1, <3>3
    <3> QED
      BY <2>2, <3>2, <3>3
  <2>5. ASSUME NEW a \in 1..Len(w) PROVE w[a].name # m[n + 1].name
    <3>1. PICK i \in 1..n : w[a] = m[i]
      BY <1>2
    <3>2. i \in 1..Len(m) /\ i # n + 1
      BY <1>1
    <3> QED
      BY <1>1, <3>1, <3>2
  <2>6. ASSUME NEW a \in 1..Len(v), NEW b \in 1..Len(v), v[a].name = v[b].name
        PROVE  a = b
    BY <1>3, <2>2, <2>5, <2>6
  <2>7. t = "audit" => /\ n + 1 = Len(h) + Len(v)
                       /\ \A a \in 1..Len(h) : h[a] = m[a]
                       /\ \A a \in 1..Len(v) : v[a] = m[Len(h) + a]
    <3> SUFFICES ASSUME t = "audit", NEW a \in 1..Len(v)
                 PROVE  n + 1 = Len(h) + Len(v) /\ v[a] = m[Len(h) + a]
      BY <1>1, <1>4, <2>1
    <3>1. n + 1 = Len(h) + Len(v)
      BY <1>1, <1>4, <2>1
    <3>2. CASE a = Len(w) + 1
      BY <1>1, <2>1, <3>1, <3>2
    <3>3. CASE a \in 1..Len(w)
      BY <1>4, <2>1, <3>3
    <3> QED
      BY <2>2, <3>1, <3>2, <3>3
  <2>8. Continues(t, h, v, n + 1, m)
    BY <1>1, <2>3, <2>4, <2>6, <2>7 DEF Continues
  <2> QED
    BY <2>8 DEF v
<1> QED
  BY <1>6, <1>7

\* History c completes history h with manifest m: it holds both and nothing else, no name
\* twice, and in the audit database it is in the order of m.
Completes(t, h, m, c) ==
  /\ \A a, b \in 1..Len(c) : c[a].name = c[b].name => a = b
  /\ \A i \in 1..Len(m) : \E a \in 1..Len(c) : c[a] = m[i]
  /\ \A a \in 1..Len(h) : a \in 1..Len(c) /\ c[a] = h[a]
  /\ \A a \in 1..Len(c) : \/ \E b \in 1..Len(h) : c[a] = h[b]
                          \/ \E i \in 1..Len(m) : c[a] = m[i]
  /\ t = "audit" => IsPrefix(c, m)

\* At the end of a manifest, the work completes the history.
LEMMA CommitHistory ==
  ASSUME NEW S, NEW t, NEW h \in Seq(S), NEW w \in Seq(S), NEW m \in Seq(S),
         Continues(t, h, w, Len(m), m),
         \A a, b \in 1..Len(h) : h[a].name = h[b].name => a = b
  PROVE  h \o w \in Seq(S) /\ Completes(t, h, m, h \o w)
<1>1. Len(h) \in Nat /\ Len(w) \in Nat /\ Len(m) \in Nat
  BY LenProperties
<1>2. /\ \A i \in 1..Len(m) : \/ \E a \in 1..Len(h) : h[a] = m[i]
                              \/ \E a \in 1..Len(w) : w[a] = m[i]
      /\ \A a \in 1..Len(w) : \E i \in 1..Len(m) : w[a] = m[i]
  BY DEF Continues
<1>3. /\ \A a \in 1..Len(w) : \A b \in 1..Len(h) : h[b].name # w[a].name
      /\ \A a, b \in 1..Len(w) : w[a].name = w[b].name => a = b
  BY DEF Continues
<1> DEFINE c == h \o w
<1>4. /\ c \in Seq(S) /\ Len(c) = Len(h) + Len(w)
      /\ \A a \in 1..Len(h) : c[a] = h[a]
      /\ \A a \in 1..Len(w) : c[Len(h) + a] = w[a]
  BY <1>1, ConcatProperties
<1> HIDE DEF c
<1>5. \A a \in 1..Len(c) : \/ a \in 1..Len(h) /\ c[a] = h[a]
                           \/ \E b \in 1..Len(w) : a = Len(h) + b /\ c[a] = w[b]
  <2> SUFFICES ASSUME NEW a \in 1..Len(c), a \notin 1..Len(h)
               PROVE  \E b \in 1..Len(w) : a = Len(h) + b /\ c[a] = w[b]
    BY <1>4
  <2>1. a - Len(h) \in 1..Len(w) /\ a = Len(h) + (a - Len(h))
    BY <1>1, <1>4
  <2> QED
    BY <1>4, <2>1
<1>6. ASSUME NEW a \in 1..Len(c), NEW b \in 1..Len(c), c[a].name = c[b].name
      PROVE  a = b
  <2>1. CASE a \in 1..Len(h) /\ c[a] = h[a] /\ b \in 1..Len(h) /\ c[b] = h[b]
    BY <1>6, <2>1
  <2>2. ASSUME NEW k \in 1..Len(w), b = Len(h) + k, c[b] = w[k], a \in 1..Len(h), c[a] = h[a]
        PROVE  FALSE
    BY <1>3, <1>6, <2>2
  <2>3. ASSUME NEW k \in 1..Len(w), a = Len(h) + k, c[a] = w[k], b \in 1..Len(h), c[b] = h[b]
        PROVE  FALSE
    BY <1>3, <1>6, <2>3
  <2>4. ASSUME NEW i \in 1..Len(w), a = Len(h) + i, c[a] = w[i],
               NEW k \in 1..Len(w), b = Len(h) + k, c[b] = w[k]
        PROVE  a = b
    <3>1. w[i].name = w[k].name
      BY <1>6, <2>4
    <3>2. i = k
      BY <1>3, <3>1
    <3> QED
      BY <2>4, <3>2
  <2> QED
    BY <1>5, <2>1, <2>2, <2>3, <2>4
<1>7. /\ \A a \in 1..Len(h) : a \in 1..Len(c)
      /\ \A a \in 1..Len(w) : Len(h) + a \in 1..Len(c)
  BY <1>1, <1>4
<1>8. ASSUME NEW i \in 1..Len(m)
      PROVE  \E a \in 1..Len(c) : c[a] = m[i]
  <2>1. ASSUME NEW a \in 1..Len(h), h[a] = m[i] PROVE \E b \in 1..Len(c) : c[b] = m[i]
    BY <1>4, <1>7, <2>1
  <2>2. ASSUME NEW a \in 1..Len(w), w[a] = m[i] PROVE \E b \in 1..Len(c) : c[b] = m[i]
    <3>1. Len(h) + a \in 1..Len(c) /\ c[Len(h) + a] = m[i]
      BY <1>4, <1>7, <2>2
    <3> QED
      BY <3>1
  <2> QED
    BY <1>2, <2>1, <2>2
<1>9. ASSUME NEW a \in 1..Len(c)
      PROVE  \/ \E b \in 1..Len(h) : c[a] = h[b]
             \/ \E i \in 1..Len(m) : c[a] = m[i]
  <2>1. ASSUME NEW b \in 1..Len(w), c[a] = w[b] PROVE \E i \in 1..Len(m) : c[a] = m[i]
    BY <1>2, <2>1
  <2> QED
    BY <1>5, <2>1
<1>10. t = "audit" => IsPrefix(c, m)
  <2> SUFFICES ASSUME t = "audit" PROVE IsPrefix(c, m)
    OBVIOUS
  <2>1. /\ Len(m) = Len(h) + Len(w)
        /\ \A a \in 1..Len(h) : h[a] = m[a]
        /\ \A a \in 1..Len(w) : w[a] = m[Len(h) + a]
    BY DEF Continues
  <2>2. \A a \in 1..Len(c) : c[a] = m[a]
    BY <1>5, <2>1
  <2>3. Len(c) <= Len(m)
    BY <1>1, <1>4, <2>1
  <2> QED
    BY <1>4, <2>2, <2>3, PrefixPointwise
<1>11. Completes(t, h, m, c)
  BY <1>4, <1>6, <1>7, <1>8, <1>9, <1>10 DEF Completes
<1> QED
  BY <1>4, <1>11 DEF c

-----------------------------------------------------------------------------
(* The steps *)

LEMMA InitIInv == Init => IInv
<1> SUFFICES ASSUME Init PROVE IInv
  OBVIOUS
<1>1. (CHOOSE c \in Configs : TRUE) \in Configs
  BY ConfigAssumption
<1>2. TypeOK
  <2>1. <<>> \in Seq(Migrations) /\ 0 \in 0..MaxRuns /\ 0 \in 0..MaxOpens
    BY EmptySeq, SetupAssumption
  <2>2. \A s \in Servers : server[s].state = "down"
    BY DEF Init
  <2> QED
    BY <1>1, <2>1, <2>2 DEF Init, TypeOK
<1>3. LockInv /\ TableInv /\ ServerInv /\ AnswersFitSchema
  <2>1. LockInv /\ AnswersFitSchema
    BY DEF Init, LockInv, HoldsLock, HoldsKey, AnswersFitSchema
  <2>2. DOMAIN server = Servers /\ answers = {} /\ \A s \in Servers : server[s].state = "down"
    BY DEF Init
  <2>3. TableInv /\ ServerInv
    BY <2>2 DEF TableInv, KeepsTable, ServerInv, ServerSound
  <2> QED
    BY <2>1, <2>3
<1>4. PICK r \in Releases : TRUE
  BY ConfigAssumption
<1>5. IsPrefix(<<>>, Manifest[r])
  <2>1. <<>> \in Seq(Migrations) /\ Len(<<>>) = 0
    BY EmptySeq
  <2>2. Manifest[r] \in Seq(Migrations) /\ Len(Manifest[r]) \in Nat
    BY ManifestType
  <2>3. Len(<<>>) <= Len(Manifest[r]) /\ \A n \in 1..Len(<<>>) : <<>>[n] = Manifest[r][n]
    BY <2>1, <2>2
  <2> QED
    BY <2>1, <2>2, <2>3, PrefixPointwise
<1>6. HistoriesAreWhole
  BY <1>5 DEF Init, HistoriesAreWhole, Applied
<1>7. \A j \in Jobs : pc[j] = "idle" /\ why[j] = "none"
  BY DEF Init
<1>8. \A j \in Jobs : WorkSound(j) /\ PhaseSound(j) /\ Justified(j, why[j])
  BY <1>7 DEF WorkSound, PhaseSound, Justified
<1> QED
  BY <1>2, <1>3, <1>6, <1>8 DEF IInv

\* Only the variables of job j change.
OnlyJob(j) ==
  /\ UNCHANGED <<target, site, db, served>>
  /\ \A k \in Jobs \ {j} :
       /\ pc'[k] = pc[k] /\ config'[k] = config[k] /\ work'[k] = work[k]
       /\ pos'[k] = pos[k] /\ found'[k] = found[k] /\ why'[k] = why[k]

\* A step that leaves the database alone preserves the invariant if the job is sound
\* after it and has waited for the lock, the key or the tables it now holds.
LEMMA JobStep ==
  ASSUME IInv, NEW j \in Jobs, OnlyJob(j), TypeOK',
         pc'[j] = "apply" => HoldsLock(j) \/ LockFree(j),
         pc'[j] = "bind" => KeyFree(j) /\ identity = Unbound,
         Alters(j)' => Alters(j) \/ Exclusive,
         WorkSound(j)', PhaseSound(j)', Justified(j, why[j])'
  PROVE  IInv'
<1> USE DEF OnlyJob, db, served
<1>1. LockInv'
  <2>1. \A k \in Jobs \ {j} : (HoldsLock(k)' <=> HoldsLock(k)) /\ (HoldsKey(k)' <=> HoldsKey(k))
    BY DEF HoldsLock, HoldsKey
  <2>2. HoldsLock(j)' => HoldsLock(j) \/ LockFree(j)
    BY DEF HoldsLock
  <2>3. HoldsKey(j)' => KeyFree(j) /\ identity = Unbound
    BY DEF HoldsKey
  <2> QED
    BY <2>1, <2>2, <2>3 DEF IInv, LockInv, LockFree, KeyFree
<1>2. Applied' = Applied
  BY DEF Applied
<1>3. TableInv' /\ ServerInv' /\ HistoriesAreWhole' /\ AnswersFitSchema'
  <2>1. \A k \in Jobs \ {j} : Alters(k)' <=> Alters(k)
    BY DEF Alters
  <2>2. \A s \in Servers : KeepsTable(s)' <=> KeepsTable(s)
    BY DEF KeepsTable
  <2>3. TableInv'
    BY <2>1, <2>2 DEF IInv, TableInv, Exclusive
  <2>4. \A s \in Servers : ServerSound(s)'
    BY <1>2 DEF IInv, ServerInv, ServerSound, RightHistory, Altered
  <2>5. ServerInv'
    BY <2>4 DEF IInv, ServerInv
  <2>6. HistoriesAreWhole' /\ AnswersFitSchema'
    BY <1>2 DEF IInv, HistoriesAreWhole, AnswersFitSchema, IsPrefix
  <2> QED
    BY <2>3, <2>5, <2>6
<1>4. ASSUME NEW k \in Jobs \ {j}
      PROVE  WorkSound(k)' /\ PhaseSound(k)' /\ Justified(k, why[k])'
  <2>1. WorkSound(k) /\ PhaseSound(k) /\ Justified(k, why[k])
    BY DEF IInv
  <2>2. ManifestFor(k)' = ManifestFor(k) /\ PackagedFor(k)' = PackagedFor(k)
    BY DEF ManifestFor, PackagedFor
  <2>3. WorkSound(k)'
    BY <2>1, <2>2 DEF WorkSound
  <2>4. PhaseSound(k)'
    BY <1>2, <2>1, <2>2 DEF PhaseSound
  <2>5. IsPrefix(history, ManifestFor(k))' <=> IsPrefix(history, ManifestFor(k))
    BY <2>2 DEF IsPrefix
  <2>6. Justified(k, why[k])'
    BY <1>2, <2>1, <2>2, <2>5 DEF Justified
  <2> QED
    BY <2>3, <2>4, <2>6
<1> QED
  BY <1>1, <1>3, <1>4 DEF IInv

\* A job that fails, or is refused for a reason that holds, gives up its locks.
LEMMA EndStep ==
  ASSUME IInv, NEW j \in Jobs, NEW step \in {"failed", "refused"},
         NEW reason \in {"none", "authority", "drift", "extension", "bound", "key"},
         End(j, step, reason), reason # "none" => step = "refused",
         Justified(j, reason), reason = "bound" => identity # Unbound
  PROVE  IInv'
<1> USE DEF End, Go, db, served
<1>1. OnlyJob(j)
  BY DEF IInv, TypeOK, OnlyJob
<1>2. TypeOK'
  <2>1. <<>> \in Seq(Migrations)
    BY EmptySeq
  <2> QED
    BY <2>1 DEF IInv, TypeOK
<1>3. pc'[j] = step /\ why'[j] = reason
  BY DEF IInv, TypeOK
<1>4. WorkSound(j)' /\ PhaseSound(j)'
  BY <1>3 DEF WorkSound, PhaseSound
<1>5. Justified(j, why[j])'
  BY <1>3 DEF Justified, ManifestFor, PackagedFor, Applied
<1>6. ~Alters(j)'
  <2>1. work'[j] = <<>> /\ Len(<<>>) = 0
    BY DEF IInv, TypeOK
  <2> QED
    BY <2>1 DEF Alters
<1> QED
  BY <1>1, <1>2, <1>3, <1>4, <1>5, <1>6, JobStep

\* A new run starts from nothing.
LEMMA StartStep ==
  ASSUME IInv, NEW j \in Jobs, NEW c \in Configs, Start(j, c)
  PROVE  IInv'
<1> USE DEF Start, db, served
<1>1. OnlyJob(j)
  BY DEF IInv, TypeOK, OnlyJob
<1>2. TypeOK'
  <2>1. <<>> \in Seq(Migrations)
    BY EmptySeq
  <2>2. runs' \in 0..MaxRuns
    BY SetupAssumption DEF IInv, TypeOK
  <2> QED
    BY <2>1, <2>2 DEF IInv, TypeOK
<1>3. pc'[j] = "lock" /\ why'[j] = "none" /\ work'[j] = <<>>
  BY DEF IInv, TypeOK
<1>4. WorkSound(j)' /\ PhaseSound(j)' /\ Justified(j, why[j])'
  BY <1>3 DEF WorkSound, PhaseSound, Justified
<1>5. ~Alters(j)'
  BY <1>3 DEF Alters
<1> QED
  BY <1>1, <1>2, <1>3, <1>4, <1>5, JobStep

\* Too much authority is a matter of the configuration.
LEMMA RejectAuthorityStep ==
  ASSUME IInv, NEW j \in Jobs, RejectAuthority(j)
  PROVE  IInv'
<1>1. Justified(j, "authority")
  BY DEF RejectAuthority, Justified
<1> QED
  BY <1>1, EndStep DEF RejectAuthority, Refuse

\* Under the lock nothing is executed yet; an audit job goes on behind the history,
\* which is a prefix of its manifest.
LEMMA LockStep ==
  ASSUME IInv, NEW j \in Jobs, Lock(j)
  PROVE  IInv'
<1>1. CASE target = "audit" /\ ~IsPrefix(history, ManifestFor(j))
  <2>1. Justified(j, "drift")
    BY <1>1 DEF Justified
  <2> QED
    BY <1>1, <2>1, EndStep DEF Lock, Refuse, ManifestFor
<1>2. CASE ~(target = "audit" /\ ~IsPrefix(history, ManifestFor(j)))
  <2>1. /\ pc[j] = "lock" /\ LockFree(j) /\ Go(j, "apply")
        /\ pos' = [pos EXCEPT ![j] = IF target = "audit" THEN Len(history) ELSE 0]
        /\ UNCHANGED <<db, work, found, why>>
    BY <1>2 DEF Lock, ManifestFor
  <2> USE DEF Go, db, served
  <2>2. OnlyJob(j)
    BY <2>1 DEF IInv, TypeOK, OnlyJob
  <2>3. history \in Seq(Migrations) /\ Len(history) \in Nat
    BY LenProperties DEF IInv, TypeOK
  <2>4. TypeOK'
    BY <2>1, <2>3 DEF IInv, TypeOK
  <2>5. PhaseSound(j)' /\ Justified(j, why[j])'
    <3>1. pc'[j] = "apply" /\ why'[j] = "none" /\ config' = config
      BY <2>1 DEF IInv, TypeOK, PhaseSound
    <3> QED
      BY <3>1 DEF PhaseSound, Justified
  <2>6. WorkSound(j)'
    <3>1. work'[j] = <<>> /\ Len(<<>>) = 0
      BY <2>1 DEF IInv, PhaseSound
    <3>2. target = "audit" => Len(history) <= Len(ManifestFor(j)) /\
                              \A n \in 1..Len(history) : history[n] = ManifestFor(j)[n]
      BY <1>2, <2>3, ConfigFacts, PrefixPointwise DEF IInv
    <3>3. pos'[j] = IF target = "audit" THEN Len(history) ELSE 0
      BY <2>1 DEF IInv, TypeOK
    <3>4. ManifestFor(j)' = ManifestFor(j) /\ Len(ManifestFor(j)) \in Nat
      BY <2>1, ConfigFacts DEF ManifestFor, IInv
    <3>5. Continues(target, history, <<>>, pos'[j], ManifestFor(j))
      BY <2>3, <3>1, <3>2, <3>3, <3>4 DEF Continues
    <3> QED
      BY <2>1, <3>1, <3>4, <3>5 DEF WorkSound
  <2>7. pc'[j] = "apply" /\ (Alters(j)' => Alters(j))
    BY <2>1 DEF IInv, TypeOK, Alters
  <2> QED
    BY <2>1, <2>2, <2>4, <2>5, <2>6, <2>7, JobStep
<1> QED
  BY <1>1, <1>2

\* The open transaction executes one more migration or skips it; a changed digest refuses
\* the job.
LEMMA ApplyStep ==
  ASSUME IInv, NEW j \in Jobs, Apply(j)
  PROVE  IInv'
<1> DEFINE n == pos[j]
           m == ManifestFor(j)[n + 1]
           same == {a \in Applied : a.name = m.name}
<1>1. /\ pc[j] = "apply" /\ n < Len(ManifestFor(j)) /\ n \in Nat
      /\ history \in Seq(Migrations) /\ Len(history) \in Nat /\ work[j] \in Seq(Migrations)
      /\ Continues(target, history, work[j], n, ManifestFor(j))
  BY LenProperties DEF Apply, ManifestFor, IInv, TypeOK, WorkSound
<1>2. /\ n + 1 \in 1..Len(ManifestFor(j)) /\ ManifestFor(j) \in Seq(Migrations)
      /\ \A i, k \in 1..Len(ManifestFor(j)) :
           ManifestFor(j)[i].name = ManifestFor(j)[k].name => i = k
  <2>1. TypeOK
    BY DEF IInv
  <2>2. ManifestFor(j) \in Seq(Migrations) /\ Len(ManifestFor(j)) \in Nat
    BY <1>1, <2>1, ConfigFacts
  <2>3. \A i, k \in 1..Len(ManifestFor(j)) :
          ManifestFor(j)[i].name = ManifestFor(j)[k].name => i = k
    BY <1>1, <2>1, ConfigFacts
  <2>4. n + 1 \in 1..Len(ManifestFor(j))
    BY <1>1, <2>2
  <2> QED
    BY <2>2, <2>3, <2>4
<1>3. m \in Migrations /\ m \in PackagedFor(j) /\ \A a \in Applied : a \in Migrations
  BY <1>1, <1>2, ElementOfSeq DEF PackagedFor, Packaged, ManifestFor, Applied
<1>4. CASE \E a \in same : a.sha # m.sha
  <2>1. Refuse(j, "drift")
    BY <1>4 DEF Apply, ManifestFor
  <2>2. Justified(j, "drift")
    BY <1>3, <1>4 DEF Justified
  <2> QED
    BY <2>1, <2>2, EndStep DEF Refuse
<1>5. CASE \A a \in same : a.sha = m.sha
  <2>1. /\ Go(j, "apply") /\ pos' = [pos EXCEPT ![j] = @ + 1]
        /\ work' = [work EXCEPT ![j] = IF same = {} THEN Append(@, m) ELSE @]
        /\ UNCHANGED <<db, found, why>> /\ (AltersNext(j) => Exclusive)
    BY <1>5 DEF Apply, ManifestFor
  <2> USE DEF Go, db, served
  <2>2. Append(work[j], m) \in Seq(Migrations)
    BY <1>1, <1>3, AppendProperties
  <2> HIDE DEF m
  <2>3. TypeOK'
    BY <1>1, <2>1, <2>2 DEF IInv, TypeOK
  <2>4. OnlyJob(j)
    BY <2>1 DEF IInv, TypeOK, OnlyJob
  <2>5. /\ pc'[j] = "apply" /\ pos'[j] = n + 1 /\ why'[j] = why[j]
        /\ work'[j] = IF same = {} THEN Append(work[j], m) ELSE work[j]
    BY <2>1 DEF IInv, TypeOK
  <2>6. PhaseSound(j)' /\ Justified(j, why[j])'
    <3>1. why'[j] = "none"
      BY <1>1, <2>5 DEF IInv, PhaseSound
    <3> QED
      BY <2>5, <3>1 DEF PhaseSound, Justified
  <2>7. CASE same = {}
    <3>1. \A b \in 1..Len(history) : history[b].name # m.name
      BY <2>7 DEF Applied
    <3>2. Continues(target, history, Append(work[j], m), n + 1, ManifestFor(j))
      BY <1>1, <1>2, <3>1, ContinueStep DEF m
    <3>3. WorkSound(j)'
      BY <2>1, <2>5, <2>7, <3>2 DEF WorkSound, ManifestFor
    <3>4. Alters(j)' => Alters(j) \/ Exclusive
      <4> SUFFICES ASSUME Alters(j)', ~Exclusive PROVE Alters(j)
        OBVIOUS
      <4>1. ~(target = "knowledge" /\ m.name \in Altering)
        BY <1>1, <2>1, <3>1 DEF AltersNext, ManifestFor, m, Applied
      <4>2. /\ Len(work'[j]) = Len(work[j]) + 1 /\ Len(work[j]) \in Nat
            /\ work'[j][Len(work[j]) + 1] = m
            /\ \A i \in 1..Len(work[j]) : work'[j][i] = work[j][i]
        BY <1>1, <1>3, <2>5, <2>7, AppendProperties, LenProperties DEF m
      <4>3. PICK i \in 1..Len(work'[j]) : work'[j][i].name \in Altering
        BY DEF Alters
      <4>4. i \in 1..Len(work[j]) /\ work[j][i].name \in Altering /\ target = "knowledge"
        BY <2>1, <4>1, <4>2, <4>3 DEF Alters
      <4> QED
        BY <4>4 DEF Alters
    <3> QED
      BY <1>1, <2>3, <2>4, <2>5, <2>6, <3>3, <3>4, JobStep DEF HoldsLock
  <2>8. CASE same # {}
    <3>1. m \in Applied
      <4>1. PICK a \in same : TRUE
        BY <2>8
      <4> QED
        BY <1>3, <1>5, <4>1, SameMigration
    <3>2. \E b \in 1..Len(history) : history[b] = m
      BY <3>1 DEF Applied
    <3>3. Continues(target, history, work[j], n + 1, ManifestFor(j))
      BY <1>1, <1>2, <3>2, ContinueStep DEF m
    <3>4. WorkSound(j)'
      BY <2>1, <2>5, <2>8, <3>3 DEF WorkSound, ManifestFor
    <3>5. Alters(j)' => Alters(j)
      BY <2>1, <2>5, <2>8 DEF Alters
    <3> QED
      BY <1>1, <2>3, <2>4, <2>5, <2>6, <3>4, <3>5, JobStep DEF HoldsLock
  <2> QED
    BY <2>7, <2>8
<1> QED
  BY <1>4, <1>5

\* The schema transaction commits: the rest of the manifest joins the history at once.
LEMMA CommitSchemaStep ==
  ASSUME IInv, NEW j \in Jobs, CommitSchema(j)
  PROVE  IInv'
<1>1. CASE target = "knowledge" /\ site = "ancient"
  <2>1. Justified(j, "extension")
    BY <1>1 DEF Justified
  <2> QED
    BY <1>1, <2>1, EndStep DEF CommitSchema, Refuse
<1>2. CASE ~(target = "knowledge" /\ site = "ancient")
  <2> DEFINE m == ManifestFor(j)
             h == history \o work[j]
  <2>1. /\ pc[j] = "apply" /\ pos[j] = Len(m) /\ pc' = [pc EXCEPT ![j] = "lookup"]
        /\ history' = h /\ work' = [work EXCEPT ![j] = <<>>]
        /\ UNCHANGED <<target, site, config, runs, served, identity, granted, pos, found, why>>
    BY <1>2 DEF CommitSchema, Go, Following, ManifestFor
  <2>2. /\ history \in Seq(Migrations) /\ work[j] \in Seq(Migrations) /\ m \in Seq(Migrations)
        /\ Continues(target, history, work[j], Len(m), m)
        /\ \A a, b \in 1..Len(history) : history[a].name = history[b].name => a = b
        /\ config[j].release \in Releases
    BY <2>1, ConfigFacts DEF IInv, TypeOK, WorkSound, HistoriesAreWhole
  <2>3. h \in Seq(Migrations) /\ Completes(target, history, m, h)
    BY <2>2, CommitHistory
  <2> HIDE DEF h, m
  <2>4. Applied \subseteq Applied' /\ PackagedFor(j) \subseteq Applied'
        /\ \A a \in Applied' : a \in Applied \/ a \in PackagedFor(j)
    <3>1. Applied' = {h[a] : a \in 1..Len(h)}
      BY <2>1 DEF Applied
    <3>2. PackagedFor(j) = {m[i] : i \in 1..Len(m)}
      BY DEF PackagedFor, Packaged, ManifestFor, m
    <3>3. Applied = {history[a] : a \in 1..Len(history)}
      BY DEF Applied
    <3>4. Applied \subseteq Applied'
      BY <2>3, <3>1, <3>3 DEF Completes
    <3>5. PackagedFor(j) \subseteq Applied'
      BY <2>3, <3>1, <3>2 DEF Completes
    <3>6. \A a \in Applied' : a \in Applied \/ a \in PackagedFor(j)
      BY <2>3, <3>1, <3>2, <3>3 DEF Completes
    <3> QED
      BY <3>4, <3>5, <3>6
  <2>5. TypeOK'
    <3>1. <<>> \in Seq(Migrations)
      BY EmptySeq
    <3> QED
      BY <2>1, <2>3, <3>1 DEF IInv, TypeOK, served
  <2>6. \A k \in Jobs : /\ k # j => pc'[k] = pc[k]
                        /\ pc'[j] = "lookup"
                        /\ pc'[k] # "apply"
    BY <2>1 DEF IInv, TypeOK, LockInv, HoldsLock
  <2>7. LockInv' /\ TableInv' /\ ServerInv' /\ AnswersFitSchema'
    <3>1. LockInv' /\ AnswersFitSchema'
      BY <2>1, <2>6 DEF IInv, LockInv, HoldsLock, HoldsKey, AnswersFitSchema, served
    <3>2. \A k \in Jobs : Alters(k)' => Alters(k)
      <4>1. work'[j] = <<>> /\ \A k \in Jobs \ {j} : work'[k] = work[k]
        BY <2>1 DEF IInv, TypeOK
      <4>2. ~Alters(j)'
        BY <4>1 DEF Alters
      <4>3. \A k \in Jobs \ {j} : Alters(k)' <=> Alters(k)
        BY <2>1, <4>1 DEF Alters
      <4> QED
        BY <4>2, <4>3
    <3>3. TableInv'
      BY <2>1, <3>2 DEF IInv, TableInv, KeepsTable, served
    <3>4. ASSUME NEW s \in Servers, KeepsTable(s), target = "knowledge"
          PROVE  Altered' = Altered
      <4>1. \A a \in 1..Len(work[j]) : work[j][a].name \notin Altering
        BY <3>4 DEF IInv, TableInv, Alters
      <4>2. /\ Len(h) = Len(history) + Len(work[j]) /\ Len(history) \in Nat
            /\ \A a \in 1..Len(h) : \/ a \in 1..Len(history) /\ h[a] = history[a]
                                    \/ \E b \in 1..Len(work[j]) : h[a] = work[j][b]
        <5>1. /\ Len(h) = Len(history) + Len(work[j])
              /\ \A a \in 1 .. Len(history) + Len(work[j]) :
                   h[a] = IF a <= Len(history) THEN history[a] ELSE work[j][a - Len(history)]
          BY <2>2, ConcatProperties DEF h
        <5>2. Len(history) \in Nat /\ Len(work[j]) \in Nat
          BY <2>2, LenProperties
        <5>3. ASSUME NEW a \in 1..Len(h), a > Len(history)
              PROVE  a - Len(history) \in 1..Len(work[j]) /\ h[a] = work[j][a - Len(history)]
          BY <5>1, <5>2, <5>3
        <5>4. \A a \in 1..Len(h) : a <= Len(history) => a \in 1..Len(history) /\ h[a] = history[a]
          BY <5>1, <5>2
        <5>5. \A a \in 1..Len(h) : a <= Len(history) \/ a > Len(history)
          BY <5>2
        <5> QED
          BY <5>1, <5>2, <5>3, <5>4, <5>5
      <4>3. \A a \in Applied' : a.name \in Altering => a \in Applied
        BY <2>1, <4>1, <4>2 DEF Applied
      <4> QED
        BY <2>4, <4>3 DEF Altered
    <3>5. ASSUME NEW s \in Servers PROVE ServerSound(s)'
      <4>1. ServerSound(s) /\ server' = server /\ target' = target /\ identity' = identity
        BY <2>1 DEF IInv, ServerInv, served
      <4>2. RightHistory(s, server[s].view)' <=> RightHistory(s, server[s].view)
        BY <4>1 DEF RightHistory
      <4> QED
        BY <3>4, <4>1, <4>2 DEF ServerSound, KeepsTable
    <3>6. ServerInv'
      BY <2>1, <3>5 DEF IInv, ServerInv, served
    <3> QED
      BY <3>1, <3>3, <3>6
  <2>8. HistoriesAreWhole'
    <3>1. \A a \in Applied' : \E r \in Releases : a \in Packaged(r) /\ Packaged(r) \subseteq Applied'
      BY <2>2, <2>4 DEF IInv, HistoriesAreWhole, PackagedFor
    <3>2. target' = "audit" => \E r \in Releases : IsPrefix(history', Manifest[r])
      BY <2>1, <2>2, <2>3 DEF Completes, m, ManifestFor
    <3>3. identity' # Unbound => \E r \in Releases : Packaged(r) \subseteq Applied'
      BY <2>1, <2>4 DEF IInv, HistoriesAreWhole
    <3> QED
      BY <2>1, <2>3, <3>1, <3>2, <3>3 DEF IInv, HistoriesAreWhole, Completes
  <2>9. ASSUME NEW k \in Jobs
        PROVE  WorkSound(k)' /\ PhaseSound(k)' /\ Justified(k, why[k])'
    <3>1. PhaseSound(k) /\ Justified(k, why[k])
      BY DEF IInv
    <3>2. PackagedFor(k)' = PackagedFor(k) /\ ManifestFor(k)' = ManifestFor(k)
      BY <2>1 DEF PackagedFor, ManifestFor
    <3>3. PhaseSound(k)'
      <4>1. CASE k = j
        <5>1. why[k] = "none"
          BY <2>1, <4>1, <3>1 DEF PhaseSound
        <5> QED
          BY <2>1, <2>4, <2>6, <3>2, <4>1, <5>1 DEF PhaseSound
      <4>2. CASE k # j
        <5>1. work'[k] = work[k] /\ pc'[k] = pc[k]
          BY <2>1, <2>6, <4>2 DEF IInv, TypeOK
        <5> QED
          BY <2>1, <2>4, <3>1, <3>2, <5>1 DEF PhaseSound
      <4> QED
        BY <4>1, <4>2
    <3>4. IsPrefix(history', ManifestFor(k)) => IsPrefix(history, ManifestFor(k))
      BY <2>1, <2>2, ConfigFacts, DriftLasts DEF h, IInv
    <3>5. Justified(k, why[k])'
      BY <2>1, <2>4, <3>1, <3>2, <3>4 DEF Justified
    <3> QED
      BY <2>6, <3>3, <3>5 DEF WorkSound
  <2> QED
    BY <2>5, <2>7, <2>8, <2>9 DEF IInv
<1> QED
  BY <1>1, <1>2

\* A job that sees the identity is refused by another owner's and content with its own.
LEMMA LookupStep ==
  ASSUME IInv, NEW j \in Jobs, Lookup(j)
  PROVE  IInv'
<1>1. CASE identity # Unbound /\ Visible(j) /\ identity # config[j].want
  <2>1. Justified(j, "bound")
    BY <1>1 DEF Justified
  <2> QED
    BY <1>1, <2>1, EndStep DEF Lookup, Refuse
<1>2. CASE ~(identity # Unbound /\ Visible(j) /\ identity # config[j].want)
  <2> DEFINE own == identity # Unbound /\ Visible(j) /\ identity = config[j].want
             step == IF own THEN "grant" ELSE "insert"
  <2>1. /\ pc[j] = "lookup" /\ Go(j, step)
        /\ own => found' = found
        /\ ~own => found' = [found EXCEPT ![j] = identity]
        /\ UNCHANGED <<db, work, pos, why>>
    BY <1>2 DEF Lookup, Following
  <2>2. ~own => identity # config[j].want
    BY ConfigFacts DEF IInv, Visible
  <2>3. own => identity = config[j].want
    OBVIOUS
  <2>4. step \in {"grant", "insert"} /\ (step = "grant" <=> own)
    OBVIOUS
  <2> HIDE DEF own, step
  <2> USE DEF Go, db, served
  <2>5. OnlyJob(j)
    BY <2>1, <2>4 DEF IInv, TypeOK, OnlyJob
  <2>6. TypeOK'
    BY <2>1, <2>4 DEF IInv, TypeOK
  <2>7. pc'[j] = step /\ why'[j] = "none" /\ (~own => found'[j] = identity)
    BY <2>1 DEF IInv, TypeOK, PhaseSound
  <2>8. PhaseSound(j)'
    <3>1. PackagedFor(j)' = PackagedFor(j) /\ Applied' = Applied /\ PackagedFor(j) \subseteq Applied
      BY <2>1 DEF IInv, PhaseSound, PackagedFor, Applied
    <3> QED
      BY <2>1, <2>2, <2>3, <2>4, <2>7, <3>1 DEF PhaseSound
  <2>9. WorkSound(j)' /\ Justified(j, why[j])' /\ (Alters(j)' => Alters(j))
    BY <2>1, <2>4, <2>7 DEF WorkSound, Justified, Alters
  <2> QED
    BY <2>4, <2>5, <2>6, <2>7, <2>8, <2>9, JobStep
<1> QED
  BY <1>1, <1>2

\* The insertion meets no row and no other insertion, or refuses the job, which had seen
\* no row of its own.
LEMMA InsertStep ==
  ASSUME IInv, NEW j \in Jobs, Insert(j)
  PROVE  IInv'
<1>1. CASE identity # Unbound
  <2>1. Justified(j, "key")
    BY <1>1 DEF Insert, IInv, PhaseSound, Justified
  <2> QED
    BY <1>1, <2>1, EndStep DEF Insert, Refuse
<1>2. CASE identity = Unbound
  <2> USE DEF Go, db, served
  <2>1. /\ pc[j] = "insert" /\ KeyFree(j) /\ Go(j, "bind")
        /\ UNCHANGED <<db, work, pos, found, why>>
    BY <1>2 DEF Insert
  <2>2. OnlyJob(j) /\ TypeOK' /\ pc'[j] = "bind" /\ why'[j] = "none"
    BY <2>1 DEF IInv, TypeOK, OnlyJob, PhaseSound
  <2>3. PhaseSound(j)'
    BY <2>1, <2>2 DEF IInv, PhaseSound, PackagedFor, Applied
  <2>4. WorkSound(j)' /\ Justified(j, why[j])' /\ (Alters(j)' => Alters(j))
    BY <2>1, <2>2 DEF WorkSound, Justified, Alters
  <2> QED
    BY <1>2, <2>1, <2>2, <2>3, <2>4, JobStep
<1> QED
  BY <1>1, <1>2

\* The identity is bound once: its key made sure that it was unbound, so that nobody had
\* granted or answered on it.
LEMMA BindStep ==
  ASSUME IInv, NEW j \in Jobs, Bind(j)
  PROVE  IInv'
<1>1. /\ pc[j] = "bind" /\ identity' = config[j].want /\ pc' = [pc EXCEPT ![j] = "grant"]
      /\ UNCHANGED <<target, site, config, runs, served, history, granted, work, pos, found, why>>
  BY DEF Bind, Go, Following
<1>2. /\ identity = Unbound /\ config[j].want \in Identities /\ config[j].want # Unbound
      /\ PackagedFor(j) \subseteq Applied /\ config[j].release \in Releases
  BY <1>1, ConfigFacts DEF IInv, LockInv, HoldsKey, PhaseSound
<1>3. TypeOK'
  BY <1>1, <1>2 DEF IInv, TypeOK, served
<1>4. \A k \in Jobs : /\ pc'[j] = "grant" /\ (k # j => pc'[k] = pc[k] /\ pc[k] # "bind")
                      /\ why'[k] = why[k]
  BY <1>1 DEF IInv, TypeOK, LockInv, HoldsKey
<1>5. LockInv'
  BY <1>1, <1>4 DEF IInv, LockInv, HoldsLock, HoldsKey
<1>6. \A a \in answers : FALSE
  BY <1>2, SetupAssumption DEF IInv, ServerInv
<1>7. TableInv' /\ ServerInv' /\ AnswersFitSchema'
  <2>1. TableInv' /\ AnswersFitSchema'
    BY <1>1, <1>6 DEF IInv, TableInv, Alters, KeepsTable, AnswersFitSchema, served
  <2>2. ASSUME NEW s \in Servers PROVE ServerSound(s)'
    <3>1. ServerSound(s) /\ server' = server
      BY <1>1 DEF IInv, ServerInv, served
    <3>2. server[s].state # "checked"
      BY <1>2, <3>1, SetupAssumption DEF ServerSound
    <3> QED
      BY <1>2, <3>1, <3>2 DEF ServerSound
  <2>3. ServerInv'
    BY <1>1, <1>6, <2>2 DEF IInv, ServerInv, served
  <2> QED
    BY <2>1, <2>3
<1>8. HistoriesAreWhole'
  <2>1. Applied' = Applied
    BY <1>1 DEF Applied
  <2>2. \E r \in Releases : Packaged(r) \subseteq Applied
    BY <1>2 DEF PackagedFor
  <2>3. ~granted
    BY <1>2 DEF IInv, HistoriesAreWhole
  <2> QED
    BY <1>1, <2>1, <2>2, <2>3 DEF IInv, HistoriesAreWhole, IsPrefix
<1>9. ASSUME NEW k \in Jobs
      PROVE  WorkSound(k)' /\ PhaseSound(k)' /\ Justified(k, why[k])'
  <2>1. WorkSound(k) /\ PhaseSound(k) /\ Justified(k, why[k])
    BY DEF IInv
  <2>2. PackagedFor(k)' = PackagedFor(k) /\ ManifestFor(k)' = ManifestFor(k) /\ Applied' = Applied
    BY <1>1 DEF PackagedFor, ManifestFor, Applied
  <2>3. WorkSound(k)'
    BY <1>1, <1>4, <2>1, <2>2 DEF WorkSound
  <2>4. config[k].want # Unbound
    BY ConfigFacts DEF IInv
  <2>5. why[k] \notin {"bound", "key"}
    BY <1>2, <2>1, <2>4 DEF PhaseSound, Justified
  <2>6. PhaseSound(k)'
    BY <1>1, <1>2, <1>4, <2>1, <2>2, <2>4, <2>5 DEF PhaseSound
  <2>7. IsPrefix(history, ManifestFor(k))' <=> IsPrefix(history, ManifestFor(k))
    BY <1>1, <2>2 DEF IsPrefix
  <2>8. Justified(k, why[k])'
    BY <1>1, <1>4, <2>1, <2>2, <2>5, <2>7 DEF Justified
  <2> QED
    BY <2>3, <2>6, <2>8
<1> QED
  BY <1>3, <1>5, <1>7, <1>8, <1>9 DEF IInv

\* The grants are made in the database that the job has found to be its own.
LEMMA GrantStep ==
  ASSUME IInv, NEW j \in Jobs, Grant(j)
  PROVE  IInv'
<1>1. /\ pc[j] = "grant" /\ granted' = TRUE /\ pc' = [pc EXCEPT ![j] = "done"]
      /\ UNCHANGED <<target, site, config, runs, served, history, identity, work, pos, found, why>>
  BY DEF Grant, Go, Following
<1>2. identity = config[j].want /\ config[j].want # Unbound /\ PackagedFor(j) \subseteq Applied
  BY <1>1, ConfigFacts DEF IInv, PhaseSound
<1>3. TypeOK'
  BY <1>1 DEF IInv, TypeOK, served
<1>4. \A k \in Jobs : pc'[j] = "done" /\ (k # j => pc'[k] = pc[k]) /\ why'[k] = why[k]
  BY <1>1 DEF IInv, TypeOK
<1>5. LockInv' /\ TableInv' /\ ServerInv' /\ AnswersFitSchema'
  <2>1. \A i \in Jobs : (HoldsLock(i)' => HoldsLock(i)) /\ (HoldsKey(i)' => HoldsKey(i))
    BY <1>1, <1>4 DEF HoldsLock, HoldsKey
  <2>2. LockInv'
    BY <1>1, <2>1 DEF IInv, LockInv
  <2>3. TableInv'
    BY <1>1 DEF IInv, TableInv, Alters, KeepsTable, served
  <2>4. ServerInv'
    BY <1>1 DEF IInv, ServerInv, ServerSound, RightHistory, Altered, Applied, served
  <2>5. AnswersFitSchema'
    BY <1>1 DEF IInv, AnswersFitSchema, served
  <2> QED
    BY <2>2, <2>3, <2>4, <2>5
<1>6. Applied' = Applied
  BY <1>1 DEF Applied
<1>7. HistoriesAreWhole'
  BY <1>1, <1>2, <1>6 DEF IInv, HistoriesAreWhole, IsPrefix
<1>8. ASSUME NEW k \in Jobs
      PROVE  WorkSound(k)' /\ PhaseSound(k)' /\ Justified(k, why[k])'
  <2>1. WorkSound(k) /\ PhaseSound(k) /\ Justified(k, why[k])
    BY DEF IInv
  <2>2. PackagedFor(k)' = PackagedFor(k) /\ ManifestFor(k)' = ManifestFor(k)
    BY <1>1 DEF PackagedFor, ManifestFor
  <2>3. WorkSound(k)'
    BY <1>1, <1>4, <2>1, <2>2 DEF WorkSound
  <2>4. why[j] = "none"
    BY <1>1 DEF IInv, PhaseSound
  <2>5. PhaseSound(k)'
    BY <1>1, <1>2, <1>4, <1>6, <2>1, <2>2, <2>4 DEF PhaseSound
  <2>6. IsPrefix(history, ManifestFor(k))' <=> IsPrefix(history, ManifestFor(k))
    BY <1>1, <2>2 DEF IsPrefix
  <2>7. Justified(k, why[k])'
    BY <1>1, <1>6, <2>1, <2>2, <2>6 DEF Justified
  <2> QED
    BY <2>3, <2>5, <2>7
<1> QED
  BY <1>3, <1>5, <1>7, <1>8 DEF IInv

-----------------------------------------------------------------------------
(* Servers *)

States == {"down", "verifying", "ready", "begun", "checked", "failed"}

\* A step that leaves the database, the site and the jobs alone preserves the invariant if
\* the servers and the answers are sound after it.
LEMMA ServerStep ==
  ASSUME IInv, UNCHANGED <<target, db, job, runs>>, site' = site \/ site = "sound",
         site' \in {"sound"} \cup Deviations(target), opens' \in 0..MaxOpens,
         TableInv', ServerInv', AnswersFitSchema',
         \A s \in Servers : server'[s].state \in States
  PROVE  IInv'
<1> USE DEF db, job
<1>1. TypeOK'
  BY DEF IInv, TypeOK, States
<1>2. Applied' = Applied
  BY DEF Applied
<1>3. LockInv' /\ HistoriesAreWhole'
  BY <1>2 DEF IInv, LockInv, HoldsLock, HoldsKey, HistoriesAreWhole, IsPrefix
<1>4. ASSUME NEW k \in Jobs
      PROVE  WorkSound(k)' /\ PhaseSound(k)' /\ Justified(k, why[k])'
  <2>1. WorkSound(k) /\ PhaseSound(k) /\ Justified(k, why[k])
    BY DEF IInv
  <2>2. PackagedFor(k)' = PackagedFor(k) /\ ManifestFor(k)' = ManifestFor(k)
    BY DEF PackagedFor, ManifestFor
  <2>3. WorkSound(k)'
    BY <2>1, <2>2 DEF WorkSound
  <2>4. PhaseSound(k)'
    BY <1>2, <2>1, <2>2 DEF PhaseSound
  <2>5. IsPrefix(history, ManifestFor(k))' <=> IsPrefix(history, ManifestFor(k))
    BY <2>2 DEF IsPrefix
  <2>6. Justified(k, why[k])'
    BY <1>2, <2>1, <2>2, <2>5 DEF Justified
  <2> QED
    BY <2>3, <2>4, <2>6
<1> QED
  BY <1>1, <1>3, <1>4 DEF IInv

\* What happens to one server preserves the invariant if that server is sound after it and
\* has waited for the tables it now keeps, and if the answers are.
LEMMA SetServerStep ==
  ASSUME IInv, NEW s \in Servers, NEW st \in States, NEW r, NEW i, NEW v, NEW seen,
         SetServer(s, st, r, i, v, seen), opens' \in 0..MaxOpens,
         st # "down" => i \in Identities,
         st = "begun" => v.identity \in {Unbound, identity},
         st = "checked" => /\ identity = i /\ Unclaimed
                           /\ target = "knowledge" => v.migrations = Packaged(r) /\ seen = Altered,
         \A a \in answers' : a.want \in Identities /\ identity = a.want,
         AnswersFitSchema'
  PROVE  IInv'
<1> USE DEF SetServer, db, job
<1>1. /\ server'[s] = [state |-> st, release |-> r, want |-> i, view |-> v, seen |-> seen]
      /\ \A t \in Servers \ {s} : server'[t] = server[t]
      /\ DOMAIN server' = Servers
  BY DEF IInv, ServerInv
<1>2. Altered' = Altered /\ \A j \in Jobs : Alters(j)' <=> Alters(j)
  BY DEF Altered, Applied, Alters
<1>3. ServerInv'
  <2>1. ServerSound(s)'
    BY <1>1, <1>2 DEF ServerSound, RightHistory
  <2>2. \A t \in Servers \ {s} : ServerSound(t)'
    BY <1>1, <1>2 DEF IInv, ServerInv, ServerSound, RightHistory
  <2> QED
    BY <1>1, <2>1, <2>2 DEF ServerInv
<1>4. TableInv'
  BY <1>1, <1>2 DEF IInv, TableInv, KeepsTable, Unclaimed
<1>5. site' \in {"sound"} \cup Deviations(target)
  BY DEF IInv, TypeOK
<1>6. \A t \in Servers : server'[t].state \in States
  BY <1>1 DEF IInv, TypeOK, States
<1> QED
  BY <1>3, <1>4, <1>5, <1>6, ServerStep

\* So does a step that leaves the answers alone.
LEMMA QuietServerStep ==
  ASSUME IInv, NEW s \in Servers, NEW st \in States, NEW r, NEW i, NEW v, NEW seen,
         SetServer(s, st, r, i, v, seen), opens' \in 0..MaxOpens, answers' = answers,
         st # "down" => i \in Identities,
         st = "begun" => v.identity \in {Unbound, identity},
         st = "checked" => /\ identity = i /\ Unclaimed
                           /\ target = "knowledge" => v.migrations = Packaged(r) /\ seen = Altered
  PROVE  IInv'
<1>1. /\ AnswersFitSchema'
      /\ \A a \in answers' : a.want \in Identities /\ identity = a.want
  BY DEF IInv, ServerInv, AnswersFitSchema, SetServer
<1> QED
  BY <1>1, SetServerStep

\* The snapshot of an answer shows the identity the database is bound to, or none.
LEMMA BeginStep ==
  ASSUME IInv, NEW s \in Servers, Begin(s)
  PROVE  IInv'
<1> DEFINE v == IF target = "knowledge" THEN Now ELSE NoView
<1>1. /\ SetServer(s, "begun", server[s].release, server[s].want, v, {})
      /\ server[s].state = "ready" /\ UNCHANGED <<opens, answers>>
  BY DEF Begin, Become
<1>2. v.identity \in {Unbound, identity}
  BY DEF Now, NoView
<1>3. opens' \in 0..MaxOpens /\ server[s].want \in Identities /\ "begun" \in States
  BY <1>1 DEF IInv, TypeOK, ServerInv, ServerSound, States
<1> HIDE DEF v
<1> QED
  BY <1>1, <1>2, <1>3, QuietServerStep

\* A check that succeeds finds the identity bound to what the server serves, and waits for
\* jobs that alter what it reads.
LEMMA CheckStep ==
  ASSUME IInv, NEW s \in Servers, Check(s)
  PROVE  IInv'
<1> DEFINE view == server[s].view
           ok == IF target = "knowledge" THEN KnowledgeBound(s, view) ELSE AuditBound(s)
<1>1. /\ server[s].state = "begun" /\ Unclaimed /\ UNCHANGED <<opens, answers>>
      /\ IF ok THEN SetServer(s, "checked", server[s].release, server[s].want, view, Altered)
               ELSE SetServer(s, "ready", server[s].release, server[s].want, NoView, {})
  BY DEF Check, Become
<1>2. /\ opens' \in 0..MaxOpens /\ server[s].want \in Identities
      /\ view.identity \in {Unbound, identity} /\ "checked" \in States /\ "ready" \in States
  BY <1>1 DEF IInv, TypeOK, ServerInv, ServerSound, States
<1>3. CASE ok
  <2>1. identity = server[s].want
    <3>1. CASE target = "knowledge"
      BY <1>2, <1>3, <3>1, SetupAssumption DEF KnowledgeBound, RightIdentity
    <3>2. CASE target # "knowledge"
      BY <1>3, <3>2 DEF AuditBound, RightIdentity, Now
    <3> QED
      BY <3>1, <3>2
  <2>2. target = "knowledge" => view.migrations = Packaged(server[s].release)
    BY <1>3 DEF KnowledgeBound, RightHistory
  <2>3. SetServer(s, "checked", server[s].release, server[s].want, view, Altered)
    BY <1>1, <1>3
  <2> HIDE DEF view, ok
  <2> QED
    BY <1>1, <1>2, <2>1, <2>2, <2>3, QuietServerStep
<1>4. CASE ~ok
  <2>1. SetServer(s, "ready", server[s].release, server[s].want, NoView, {})
    BY <1>1, <1>4
  <2> HIDE DEF view, ok
  <2> QED
    BY <1>1, <1>2, <2>1, QuietServerStep
<1> QED
  BY <1>3, <1>4

\* What was checked still holds when the query is made.
LEMMA QueryStep ==
  ASSUME IInv, NEW s \in Servers, Query(s)
  PROVE  IInv'
<1> DEFINE a == [release |-> server[s].release, want |-> server[s].want,
                 rows |-> server[s].view.migrations, before |-> server[s].seen,
                 after |-> Altered]
<1>1. /\ server[s].state = "checked" /\ answers' = answers \cup {a} /\ UNCHANGED opens
      /\ SetServer(s, "ready", server[s].release, server[s].want, NoView, {})
  BY DEF Query, Become
<1>2. ServerSound(s) /\ server[s].want \in Identities /\ identity = server[s].want
  BY <1>1 DEF IInv, ServerInv, ServerSound
<1>3. a.want \in Identities /\ identity = a.want
  BY <1>2
<1>4. target = "knowledge" => a.rows = Packaged(a.release) /\ a.before = a.after
  BY <1>1, <1>2 DEF ServerSound, RightHistory
<1> HIDE DEF a
<1>5. AnswersFitSchema'
  BY <1>1, <1>4 DEF IInv, AnswersFitSchema, SetServer
<1>6. \A b \in answers' : b.want \in Identities /\ identity = b.want
  BY <1>1, <1>3 DEF IInv, ServerInv
<1>7. opens' \in 0..MaxOpens /\ "ready" \in States
  BY <1>1 DEF IInv, TypeOK, States
<1> QED
  BY <1>1, <1>2, <1>5, <1>6, <1>7, SetServerStep

\* Every step preserves the inductive invariant.
LEMMA NextIInv == IInv /\ [Next]_vars => IInv'
<1> SUFFICES ASSUME IInv, [Next]_vars PROVE IInv'
  OBVIOUS
<1>1. ASSUME NEW j \in Jobs, Step(j) PROVE IInv'
  BY <1>1, RejectAuthorityStep, LockStep, ApplyStep, CommitSchemaStep, LookupStep, InsertStep,
     BindStep, GrantStep DEF Step
<1>2. ASSUME NEW j \in Jobs, Fail(j) PROVE IInv'
  <2>1. Justified(j, "none")
    BY DEF Justified
  <2> QED
    BY <1>2, <2>1, EndStep DEF Fail
<1>3. ASSUME NEW s \in Servers, Verify(s) PROVE IInv'
  <2>1. /\ opens' \in 0..MaxOpens /\ server[s].state = "verifying"
        /\ server[s].want \in Identities /\ "ready" \in States /\ "failed" \in States
    BY <1>3 DEF Verify, IInv, TypeOK, ServerInv, ServerSound, States
  <2>2. /\ answers' = answers
        /\ \E st \in {"ready", "failed"} :
             SetServer(s, st, server[s].release, server[s].want, NoView, {})
    BY <1>3 DEF Verify, Become
  <2> QED
    BY <2>1, <2>2, QuietServerStep
<1>4. ASSUME NEW s \in Servers, Stop(s) \/ Abandon(s) PROVE IInv'
  <2>1. /\ opens' \in 0..MaxOpens /\ answers' = answers /\ "down" \in States /\ "ready" \in States
        /\ \/ SetServer(s, "down", server[s].release, server[s].want, NoView, {})
           \/ /\ SetServer(s, "ready", server[s].release, server[s].want, NoView, {})
              /\ server[s].want \in Identities
    BY <1>4 DEF Stop, Abandon, Become, IInv, TypeOK, ServerInv, ServerSound, States
  <2> QED
    BY <2>1, QuietServerStep
<1>5. ASSUME NEW s \in Servers, NEW d \in Deployments, Open(s, d)
      PROVE  IInv'
  <2>1. opens' \in 0..MaxOpens /\ d.want \in Identities /\ "verifying" \in States
    BY <1>5, SetupAssumption, ConfigAssumption DEF Open, IInv, TypeOK, States
  <2> QED
    BY <1>5, <2>1, QuietServerStep DEF Open
<1>6. ASSUME NEW d, Tamper(d) PROVE IInv'
  <2>1. /\ site = "sound" /\ site' \in Deviations(target)
        /\ UNCHANGED <<target, history, identity, granted, job, runs, server, opens, answers>>
    BY <1>6 DEF Tamper, db, served
  <2>2. TableInv' /\ ServerInv' /\ AnswersFitSchema'
    BY <2>1 DEF IInv, TableInv, Alters, KeepsTable, job, ServerInv, ServerSound, RightHistory,
                Altered, Applied, AnswersFitSchema
  <2>3. /\ opens' \in 0..MaxOpens
        /\ \A t \in Servers : server'[t].state \in States
    BY <2>1 DEF IInv, TypeOK, States
  <2> QED
    BY <2>1, <2>2, <2>3, ServerStep DEF db
<1>7. CASE UNCHANGED vars
  <2>1. UNCHANGED <<target, site, history, identity, granted, job, runs, server, opens, answers>>
    BY <1>7 DEF vars, db, served
  <2>2. TableInv' /\ ServerInv' /\ AnswersFitSchema'
    BY <2>1 DEF IInv, TableInv, Alters, KeepsTable, job, ServerInv, ServerSound, RightHistory,
                Altered, Applied, AnswersFitSchema
  <2>3. /\ opens' \in 0..MaxOpens /\ site' \in {"sound"} \cup Deviations(target)
        /\ \A t \in Servers : server'[t].state \in States
    BY <2>1 DEF IInv, TypeOK, States
  <2> QED
    BY <2>1, <2>2, <2>3, ServerStep DEF db
<1> QED
  BY <1>1, <1>2, <1>3, <1>4, <1>5, <1>6, <1>7, BeginStep, CheckStep, QueryStep, StartStep
  DEF Next, Serve, Rest

\* IInv is an invariant.
THEOREM Invariance == Spec => []IInv
<1>1. Init => IInv
  BY InitIInv
<1>2. IInv /\ [Next]_vars => IInv'
  BY NextIInv
<1> QED
  BY <1>1, <1>2, PTL DEF Spec

-----------------------------------------------------------------------------
(* The theorems *)

\* The history, the identity and the jobs keep their shape.
THEOREM TypeCorrect == Spec => []TypeOK
<1>1. IInv => TypeOK
  BY DEF IInv
<1> QED
  BY <1>1, Invariance, PTL

\* Jobs of whatever releases that overlap, fail and are repeated leave whole migration
\* runs behind, no name twice, and nothing bound or granted before its schema is there.
THEOREM WholeHistories == Spec => []HistoriesAreWhole
<1>1. IInv => HistoriesAreWhole
  BY DEF IInv
<1> QED
  BY <1>1, Invariance, PTL

\* Every job that succeeded and every answer was for the one identity the database is
\* bound to, although forced row security may hide that identity from a job.
THEOREM SingleOwner == Spec => []OneOwner
<1>1. IInv => OneOwner
  BY DEF IInv, PhaseSound, ServerInv, OneOwner
<1> QED
  BY <1>1, Invariance, PTL

\* What an answer checked in one statement holds in its query, whatever jobs commit in
\* between: its rows are of its own release, and no checked table was altered.
THEOREM AnswersUnderOwnSchema == Spec => []AnswersFitSchema
<1>1. IInv => AnswersFitSchema
  BY DEF IInv
<1> QED
  BY <1>1, Invariance, PTL

\* What a job was refused for lasts, whatever other jobs do afterwards.
THEOREM JustifiedRefusals == Spec => []RefusalIsJustified
<1>1. IInv => RefusalIsJustified
  BY DEF IInv, Justified, PackagedFor, ManifestFor, RefusalIsJustified
<1> QED
  BY <1>1, Invariance, PTL
=============================================================================
