---------------------------- MODULE StorageProofs ----------------------------
(***************************************************************************)
(* What holds of VersionedJson for every number of edits and faults: what  *)
(* is written survives, what is replaced is kept, and the last-good copy   *)
(* is good.                                                                *)
(***************************************************************************)
EXTENDS VersionedJson, TLAPS

-----------------------------------------------------------------------------
(* Sequences of calls *)

LEMMA SeqFacts ==
  ASSUME NEW s \in Seq(Call), s # <<>>
  PROVE  /\ Len(s) \in Nat /\ Len(s) >= 1 /\ DOMAIN s = 1..Len(s)
         /\ Head(s) = s[1] /\ \A i \in 1..Len(s) : s[i] \in Call
         /\ Tail(s) \in Seq(Call) /\ Len(Tail(s)) = Len(s) - 1 /\ DOMAIN Tail(s) = 1..Len(s) - 1
         /\ \A i \in 1..Len(s) - 1 : Tail(s)[i] = s[i + 1]
  OBVIOUS

LEMMA NoCalls == <<>> \in Seq(Call)
  OBVIOUS

LEMMA SomeCalls == ASSUME NEW s \in Seq(Call), Len(s) > 0 PROVE s # <<>>
<1> SUFFICES ASSUME s = <<>> PROVE FALSE
  OBVIOUS
<1>1. Len(s) = 0
  OBVIOUS
<1> QED BY <1>1

LEMMA SeqConcat ==
  ASSUME NEW s \in Seq(Call), NEW t \in Seq(Call)
  PROVE  /\ s \o t \in Seq(Call) /\ Len(s) \in Nat /\ Len(t) \in Nat /\ Len(s \o t) = Len(s) + Len(t)
         /\ \A i \in 1..Len(s) : (s \o t)[i] = s[i]
         /\ \A i \in 1..Len(t) : (s \o t)[Len(s) + i] = t[i]
  OBVIOUS

Rename(to, doc) == [step |-> "rename", to |-> to, doc |-> doc]
Sync(to, doc) == [step |-> "sync", to |-> to, doc |-> doc]
CopyTo(to, doc) == [step |-> "copy", to |-> to, doc |-> doc]
Tos == Places \cup {"file", "lastGood"}

LEMMA WriteFacts ==
  ASSUME NEW to \in Tos, NEW doc \in Content
  PROVE  /\ Rename(to, doc) \in Call /\ Sync(to, doc) \in Call /\ CopyTo(to, doc) \in Call
         /\ Write(to, doc) = <<Rename(to, doc), Sync(to, doc)>>
         /\ Write(to, doc) \in Seq(Call) /\ Len(Write(to, doc)) = 2
         /\ Write(to, doc)[1] = Rename(to, doc) /\ Write(to, doc)[2] = Sync(to, doc)
         /\ Copy(to, doc) \in Seq(Call) /\ Len(Copy(to, doc)) = 1 /\ Copy(to, doc)[1] = CopyTo(to, doc)
<1>1. Rename(to, doc) \in Call /\ Sync(to, doc) \in Call /\ CopyTo(to, doc) \in Call
  BY DEF Rename, Sync, CopyTo, Call, Tos
<1> QED BY <1>1 DEF Write, Copy, Rename, Sync, CopyTo

LEMMA BackupCalls ==
  ASSUME NEW doc \in Content
  PROVE  /\ EnsureBackup(doc) \in Seq(Call)
         /\ \/ Len(EnsureBackup(doc)) = 0 /\ doc \in dir.migrations
            \/ /\ Len(EnsureBackup(doc)) = 2
               /\ EnsureBackup(doc)[1] = Rename("migrations", doc) /\ EnsureBackup(doc)[2] = Sync("migrations", doc)
<1>1. CASE doc \in dir.migrations BY <1>1 DEF EnsureBackup
<1>2. CASE doc \notin dir.migrations
  <2>1. "migrations" \in Tos BY DEF Tos, Places
  <2> QED BY <1>2, <2>1, WriteFacts DEF EnsureBackup
<1> QED BY <1>1, <1>2

LEMMA RefreshCalls ==
  ASSUME NEW file \in File
  PROVE  /\ RefreshLastGood(file) \in Seq(Call)
         /\ \/ Len(RefreshLastGood(file)) = 0 /\ (file = Missing \/ file = dir.lastGood)
            \/ /\ Len(RefreshLastGood(file)) = 2 /\ file \in Content
               /\ RefreshLastGood(file)[1] = Rename("lastGood", file) /\ RefreshLastGood(file)[2] = Sync("lastGood", file)
<1>1. CASE file = Missing \/ file = dir.lastGood BY <1>1 DEF RefreshLastGood
<1>2. CASE ~(file = Missing \/ file = dir.lastGood)
  <2>1. "lastGood" \in Tos /\ file \in Content BY <1>2 DEF Tos, File
  <2> QED BY <1>2, <2>1, WriteFacts DEF RefreshLastGood
<1> QED BY <1>1, <1>2

\* u puts the file aside, unless it is there, writes it anew with its k + 1st call and refreshes
\* the last-good copy.
Migrating(u, old, m, k) ==
    /\ u \in Seq(Call) /\ u # <<>> /\ k + 1 \in DOMAIN u
    /\ u[k + 1].step = "rename" /\ u[k + 1].to = "file" /\ u[k + 1].doc = m
    /\ \A i \in DOMAIN u :
         /\ u[i].step # "copy"
         /\ u[i].step = "rename" => i + 1 \in DOMAIN u /\ u[i + 1] = Sync(u[i].to, u[i].doc)
         /\ u[i].to = "file" => u[i].doc = m /\ ((i = k + 1 /\ u[i].step = "rename") \/ (i = k + 2 /\ u[i].step = "sync"))
         /\ u[i].to = "lastGood" => u[i].doc = m /\ i > k + 2
    /\ \/ k = 0 /\ old \in dir.migrations
       \/ k = 2 /\ u[1].step = "rename" /\ u[1].to = "migrations" /\ u[1].doc = old
    /\ \/ m = Missing \/ m = dir.lastGood
       \/ \E i \in DOMAIN u : u[i].step = "rename" /\ u[i].to = "lastGood" /\ u[i].doc = m

\* The calls of a load that migrates: the original is put aside, the file written, the copy refreshed.
LEMMA LoadCalls ==
  ASSUME NEW old \in Content, NEW m \in Doc,
         NEW u, u = EnsureBackup(old) \o Write("file", m) \o RefreshLastGood(m)
  PROVE  \E k \in {0, 2} : Migrating(u, old, m, k)
<1>k. PICK k : k = Len(EnsureBackup(old))
  OBVIOUS
<1>l. PICK l : l = Len(RefreshLastGood(m))
  OBVIOUS
<1> DEFINE b == EnsureBackup(old)
           w == Write("file", m)
           r == RefreshLastGood(m)
<1>1. m \in Content /\ m \in File /\ "file" \in Tos
  BY DEF Content, File, Tos
<1>2. w \in Seq(Call) /\ Len(w) = 2 /\ w[1] = Rename("file", m) /\ w[2] = Sync("file", m)
  BY <1>1, WriteFacts
<1>3. /\ b \in Seq(Call) /\ k = Len(b)
      /\ \/ k = 0 /\ old \in dir.migrations
         \/ k = 2 /\ b[1] = Rename("migrations", old) /\ b[2] = Sync("migrations", old)
  BY <1>k, BackupCalls
<1>4. /\ r \in Seq(Call) /\ l = Len(r)
      /\ \/ l = 0 /\ (m = Missing \/ m = dir.lastGood)
         \/ l = 2 /\ r[1] = Rename("lastGood", m) /\ r[2] = Sync("lastGood", m)
  BY <1>1, <1>l, RefreshCalls
<1> DEFINE v == b \o w
<1>5. u = v \o r OBVIOUS
<1> HIDE DEF b, w, r
<1>6. /\ v \in Seq(Call) /\ Len(v) = k + 2
      /\ \A i \in 1..k : v[i] = b[i]
      /\ v[k + 1] = w[1] /\ v[k + 2] = w[2]
  <2>1. w \in Seq(Call) /\ Len(w) = 2 /\ b \in Seq(Call) /\ Len(b) = k
    BY <1>2, <1>3
  <2>2. /\ v \in Seq(Call) /\ Len(v) = Len(b) + Len(w)
        /\ \A i \in 1..Len(b) : v[i] = b[i]
        /\ \A i \in 1..Len(w) : v[Len(b) + i] = w[i]
    BY <2>1, SeqConcat
  <2> HIDE DEF v
  <2> QED BY <2>1, <2>2
<1> HIDE DEF v
<1>7. /\ u \in Seq(Call) /\ Len(u) = k + 2 + l
      /\ \A i \in 1..k + 2 : u[i] = v[i]
      /\ \A i \in 1..l : u[(k + 2) + i] = r[i]
  <2>1. v \in Seq(Call) /\ Len(v) = k + 2 /\ r \in Seq(Call) /\ Len(r) = l
    BY <1>4, <1>6
  <2>2. /\ u \in Seq(Call) /\ Len(u) = Len(v) + Len(r)
        /\ \A i \in 1..Len(v) : u[i] = v[i]
        /\ \A i \in 1..Len(r) : u[Len(v) + i] = r[i]
    <3>1. /\ v \o r \in Seq(Call) /\ Len(v \o r) = Len(v) + Len(r)
          /\ \A i \in 1..Len(v) : (v \o r)[i] = v[i]
          /\ \A i \in 1..Len(r) : (v \o r)[Len(v) + i] = r[i]
      BY <2>1, SeqConcat
    <3> QED BY <1>5, <3>1
  <2> QED BY <2>1, <2>2
<1>8. u[k + 1] = w[1] /\ u[k + 2] = w[2]
  <2>1. k + 1 \in 1..k + 2 /\ k + 2 \in 1..k + 2
    BY <1>3
  <2>2. v[k + 1] = w[1] /\ v[k + 2] = w[2]
    BY <1>6
  <2> QED BY <1>7, <2>1, <2>2
<1>11. k \in {0, 2} /\ l \in {0, 2}
  BY <1>3, <1>4
<1>9. k = 2 => u[1] = b[1] /\ u[2] = b[2]
  <2> SUFFICES ASSUME k = 2 PROVE u[1] = b[1] /\ u[2] = b[2]
    OBVIOUS
  <2>0. 1 \in 1..k + 2 /\ 2 \in 1..k + 2
    BY <1>11
  <2>1. u[1] = v[1] /\ u[2] = v[2]
    BY <1>7, <2>0
  <2>2. v[1] = b[1] /\ v[2] = b[2]
    BY <1>6
  <2> QED BY <2>1, <2>2
<1>10. l = 2 => u[k + 3] = r[1] /\ u[k + 4] = r[2]
  <2>1. (k + 2) + 1 = k + 3 /\ (k + 2) + 2 = k + 4
    BY <1>3
  <2>2. l = 2 => u[(k + 2) + 1] = r[1] /\ u[(k + 2) + 2] = r[2]
    <3>1. l = 2 => 1 \in 1..l /\ 2 \in 1..l
      OBVIOUS
    <3> QED BY <1>7, <3>1
  <2> QED BY <2>1, <2>2
<1>12. (k = 0 => old \in dir.migrations) /\ (k = 2 => b[1] = Rename("migrations", old) /\ b[2] = Sync("migrations", old))
  BY <1>3
<1>13. (l = 0 => m = Missing \/ m = dir.lastGood) /\ (l = 2 => r[1] = Rename("lastGood", m) /\ r[2] = Sync("lastGood", m))
  BY <1>4
<1>14. /\ k = 2 => u[1] = Rename("migrations", old) /\ u[2] = Sync("migrations", old)
       /\ u[k + 1] = Rename("file", m) /\ u[k + 2] = Sync("file", m)
       /\ l = 2 => u[k + 3] = Rename("lastGood", m) /\ u[k + 4] = Sync("lastGood", m)
  BY <1>2, <1>8, <1>9, <1>10, <1>12, <1>13
<1> SUFFICES Migrating(u, old, m, k)
  BY <1>11
<1>15. CASE k = 0 /\ l = 0
  <2>1. Len(u) = 2
    BY <1>7, <1>15
  <2>2. DOMAIN u = 1..2 /\ u # <<>>
    BY <1>7, <2>1
  <2>3. u[1] = Rename("file", m) /\ u[2] = Sync("file", m)
    <3>1. k + 1 = 1 /\ k + 2 = 2 /\ k + 3 = 3 /\ k + 4 = 4
      BY <1>15
    <3> QED BY <1>14, <1>15, <3>1
  <2>4. \A i \in DOMAIN u : (i = 1 /\ u[i] = Rename("file", m)) \/ (i = 2 /\ u[i] = Sync("file", m))
    BY ONLY <2>2, <2>3
  <2>5. \A i \in DOMAIN u :
         /\ u[i].step # "copy"
         /\ u[i].step = "rename" => i + 1 \in DOMAIN u /\ u[i + 1] = Sync(u[i].to, u[i].doc)
    BY ONLY <2>2, <2>3, <2>4 DEF Rename, Sync
  <2>6. \A i \in DOMAIN u :
         /\ u[i].to = "file" => u[i].doc = m /\ ((i = 1 /\ u[i].step = "rename") \/ (i = 2 /\ u[i].step = "sync"))
         /\ u[i].to = "lastGood" => u[i].doc = m /\ i > 2
    BY ONLY <2>2, <2>4 DEF Rename, Sync
  <2>7. 1 \in DOMAIN u /\ u[1].step = "rename" /\ u[1].to = "file" /\ u[1].doc = m
    BY ONLY <2>2, <2>3 DEF Rename
  <2>8. m = Missing \/ m = dir.lastGood
    BY <1>13, <1>15
  <2>9. old \in dir.migrations
    BY <1>12, <1>15
  <2>10. Migrating(u, old, m, 0)
    <3>1. 0 + 1 = 1 /\ 0 + 2 = 2
      OBVIOUS
    <3> QED BY ONLY <1>7, <2>2, <2>5, <2>6, <2>7, <2>8, <2>9, <3>1 DEF Migrating
  <2> QED BY <1>15, <2>10
<1>16. CASE k = 2 /\ l = 0
  <2>1. Len(u) = 4
    BY <1>7, <1>16
  <2>2. DOMAIN u = 1..4 /\ u # <<>>
    BY <1>7, <2>1
  <2>3. /\ u[1] = Rename("migrations", old) /\ u[2] = Sync("migrations", old)
        /\ u[3] = Rename("file", m) /\ u[4] = Sync("file", m)
    <3>1. k + 1 = 3 /\ k + 2 = 4 /\ k + 3 = 5 /\ k + 4 = 6
      BY <1>16
    <3> QED BY <1>14, <1>16, <3>1
  <2>4. \A i \in DOMAIN u :
        \/ (i = 1 /\ u[i] = Rename("migrations", old))
        \/ (i = 2 /\ u[i] = Sync("migrations", old))
        \/ (i = 3 /\ u[i] = Rename("file", m))
        \/ (i = 4 /\ u[i] = Sync("file", m))
    BY ONLY <2>2, <2>3
  <2>5. \A i \in DOMAIN u :
         /\ u[i].step # "copy"
         /\ u[i].step = "rename" => i + 1 \in DOMAIN u /\ u[i + 1] = Sync(u[i].to, u[i].doc)
    BY ONLY <2>2, <2>3, <2>4 DEF Rename, Sync
  <2>6. \A i \in DOMAIN u :
         /\ u[i].to = "file" => u[i].doc = m /\ ((i = 3 /\ u[i].step = "rename") \/ (i = 4 /\ u[i].step = "sync"))
         /\ u[i].to = "lastGood" => u[i].doc = m /\ i > 4
    BY ONLY <2>2, <2>4 DEF Rename, Sync
  <2>7. 3 \in DOMAIN u /\ u[3].step = "rename" /\ u[3].to = "file" /\ u[3].doc = m
    BY ONLY <2>2, <2>3 DEF Rename
  <2>8. m = Missing \/ m = dir.lastGood
    BY <1>13, <1>16
  <2>9. u[1].step = "rename" /\ u[1].to = "migrations" /\ u[1].doc = old
    BY ONLY <2>3 DEF Rename
  <2>10. Migrating(u, old, m, 2)
    <3>1. 2 + 1 = 3 /\ 2 + 2 = 4
      OBVIOUS
    <3> QED BY ONLY <1>7, <2>2, <2>5, <2>6, <2>7, <2>8, <2>9, <3>1 DEF Migrating
  <2> QED BY <1>16, <2>10
<1>17. CASE k = 0 /\ l = 2
  <2>1. Len(u) = 4
    BY <1>7, <1>17
  <2>2. DOMAIN u = 1..4 /\ u # <<>>
    BY <1>7, <2>1
  <2>3. u[1] = Rename("file", m) /\ u[2] = Sync("file", m) /\ u[3] = Rename("lastGood", m) /\ u[4] = Sync("lastGood", m)
    <3>1. k + 1 = 1 /\ k + 2 = 2 /\ k + 3 = 3 /\ k + 4 = 4
      BY <1>17
    <3> QED BY <1>14, <1>17, <3>1
  <2>4. \A i \in DOMAIN u :
        \/ (i = 1 /\ u[i] = Rename("file", m))
        \/ (i = 2 /\ u[i] = Sync("file", m))
        \/ (i = 3 /\ u[i] = Rename("lastGood", m))
        \/ (i = 4 /\ u[i] = Sync("lastGood", m))
    BY ONLY <2>2, <2>3
  <2>5. \A i \in DOMAIN u :
         /\ u[i].step # "copy"
         /\ u[i].step = "rename" => i + 1 \in DOMAIN u /\ u[i + 1] = Sync(u[i].to, u[i].doc)
    BY ONLY <2>2, <2>3, <2>4 DEF Rename, Sync
  <2>6. \A i \in DOMAIN u :
         /\ u[i].to = "file" => u[i].doc = m /\ ((i = 1 /\ u[i].step = "rename") \/ (i = 2 /\ u[i].step = "sync"))
         /\ u[i].to = "lastGood" => u[i].doc = m /\ i > 2
    BY ONLY <2>2, <2>4 DEF Rename, Sync
  <2>7. 1 \in DOMAIN u /\ u[1].step = "rename" /\ u[1].to = "file" /\ u[1].doc = m
    BY ONLY <2>2, <2>3 DEF Rename
  <2>8. \E i \in DOMAIN u : u[i].step = "rename" /\ u[i].to = "lastGood" /\ u[i].doc = m
    <3>1. 3 \in DOMAIN u /\ u[3].step = "rename" /\ u[3].to = "lastGood" /\ u[3].doc = m
      BY ONLY <2>2, <2>3 DEF Rename
    <3> QED BY <3>1
  <2>9. old \in dir.migrations
    BY <1>12, <1>17
  <2>10. Migrating(u, old, m, 0)
    <3>1. 0 + 1 = 1 /\ 0 + 2 = 2
      OBVIOUS
    <3> QED BY ONLY <1>7, <2>2, <2>5, <2>6, <2>7, <2>8, <2>9, <3>1 DEF Migrating
  <2> QED BY <1>17, <2>10
<1>18. CASE k = 2 /\ l = 2
  <2>1. Len(u) = 6
    <3>1. k + 2 + l = 6
      BY <1>18
    <3> QED BY <1>7, <3>1
  <2>2. DOMAIN u = 1..6 /\ u # <<>>
    <3>1. u \in Seq(Call) /\ Len(u) = 6
      BY <1>7, <2>1
    <3>2. DOMAIN u = 1..Len(u)
      BY ONLY <3>1
    <3>3. DOMAIN u = 1..6
      BY ONLY <3>1, <3>2
    <3>4. u # <<>>
      <4>1. Len(u) \in Nat /\ Len(u) > 0
        BY ONLY <3>1
      <4> QED BY ONLY <4>1
    <3> QED BY ONLY <3>3, <3>4
  <2>3. /\ u[1] = Rename("migrations", old) /\ u[2] = Sync("migrations", old)
        /\ u[3] = Rename("file", m) /\ u[4] = Sync("file", m)
        /\ u[5] = Rename("lastGood", m) /\ u[6] = Sync("lastGood", m)
    <3>1. k + 1 = 3 /\ k + 2 = 4 /\ k + 3 = 5 /\ k + 4 = 6
      BY <1>18
    <3> QED BY <1>14, <1>18, <3>1
  <2>4. \A i \in DOMAIN u :
        \/ (i = 1 /\ u[i] = Rename("migrations", old))
        \/ (i = 2 /\ u[i] = Sync("migrations", old))
        \/ (i = 3 /\ u[i] = Rename("file", m))
        \/ (i = 4 /\ u[i] = Sync("file", m))
        \/ (i = 5 /\ u[i] = Rename("lastGood", m))
        \/ (i = 6 /\ u[i] = Sync("lastGood", m))
    BY ONLY <2>2, <2>3
  <2>5. \A i \in DOMAIN u :
         /\ u[i].step # "copy"
         /\ u[i].step = "rename" => i + 1 \in DOMAIN u /\ u[i + 1] = Sync(u[i].to, u[i].doc)
    BY ONLY <2>2, <2>3, <2>4 DEF Rename, Sync
  <2>6. \A i \in DOMAIN u :
         /\ u[i].to = "file" => u[i].doc = m /\ ((i = 3 /\ u[i].step = "rename") \/ (i = 4 /\ u[i].step = "sync"))
         /\ u[i].to = "lastGood" => u[i].doc = m /\ i > 4
    BY ONLY <2>2, <2>4 DEF Rename, Sync
  <2>7. 3 \in DOMAIN u /\ u[3].step = "rename" /\ u[3].to = "file" /\ u[3].doc = m
    BY ONLY <2>2, <2>3 DEF Rename
  <2>8. \E i \in DOMAIN u : u[i].step = "rename" /\ u[i].to = "lastGood" /\ u[i].doc = m
    <3>1. 5 \in DOMAIN u /\ u[5].step = "rename" /\ u[5].to = "lastGood" /\ u[5].doc = m
      BY ONLY <2>2, <2>3 DEF Rename
    <3> QED BY <3>1
  <2>9. u[1].step = "rename" /\ u[1].to = "migrations" /\ u[1].doc = old
    BY ONLY <2>3 DEF Rename
  <2>10. Migrating(u, old, m, 2)
    <3>1. 2 + 1 = 3 /\ 2 + 2 = 4
      OBVIOUS
    <3> QED BY ONLY <1>7, <2>2, <2>5, <2>6, <2>7, <2>8, <2>9, <3>1 DEF Migrating
  <2> QED BY <1>18, <2>10
<1> QED BY <1>11, <1>15, <1>16, <1>17, <1>18

\* The calls of a recovery: the file and its copy are put aside, the file is written.
LEMMA ReplaceCalls ==
  ASSUME dir.file \in File, dir.lastGood \in File, NEW doc \in Doc,
         NEW k, k = (IF dir.file = Missing THEN 0 ELSE 1), NEW l, l = (IF dir.lastGood = Missing THEN 0 ELSE 1)
  PROVE  /\ Replace(doc) \in Seq(Call) /\ Len(Replace(doc)) = k + l + 2
         /\ k = 1 => Replace(doc)[1] = CopyTo("broken", dir.file)
         /\ l = 1 => Replace(doc)[k + 1] = CopyTo("archived", dir.lastGood)
         /\ Replace(doc)[k + l + 1] = Rename("file", doc) /\ Replace(doc)[k + l + 2] = Sync("file", doc)
<1> DEFINE b == IF dir.file = Missing THEN <<>> ELSE Copy("broken", dir.file)
           a == IF dir.lastGood = Missing THEN <<>> ELSE Copy("archived", dir.lastGood)
           w == Write("file", doc)
           v == b \o a
           u == Replace(doc)
<1>1. doc \in Content /\ {"file", "broken", "archived"} \subseteq Tos
  BY DEF Content, Tos, Places
<1>2. w \in Seq(Call) /\ Len(w) = 2 /\ w[1] = Rename("file", doc) /\ w[2] = Sync("file", doc)
  BY <1>1, WriteFacts
<1>3. b \in Seq(Call) /\ Len(b) = k /\ k \in {0, 1} /\ (k = 1 => b[1] = CopyTo("broken", dir.file))
  <2>1. CASE dir.file = Missing BY <2>1
  <2>2. CASE dir.file # Missing
    <3>1. dir.file \in Content BY <2>2 DEF File
    <3> QED BY <1>1, <2>2, <3>1, WriteFacts
  <2> QED BY <2>1, <2>2
<1>4. a \in Seq(Call) /\ Len(a) = l /\ l \in {0, 1} /\ (l = 1 => a[1] = CopyTo("archived", dir.lastGood))
  <2>1. CASE dir.lastGood = Missing BY <2>1
  <2>2. CASE dir.lastGood # Missing
    <3>1. dir.lastGood \in Content BY <2>2 DEF File
    <3> QED BY <1>1, <2>2, <3>1, WriteFacts
  <2> QED BY <2>1, <2>2
<1>5. u = v \o w
  BY DEF Replace
<1> HIDE DEF b, a, w, u
<1>6. /\ v \in Seq(Call) /\ Len(v) = k + l
      /\ \A i \in 1..k : v[i] = b[i]
      /\ \A i \in 1..l : v[k + i] = a[i]
  BY <1>3, <1>4, SeqConcat
<1> HIDE DEF v
<1>7. /\ u \in Seq(Call) /\ Len(u) = k + l + 2
      /\ \A i \in 1..k + l : u[i] = v[i]
      /\ \A i \in 1..2 : u[(k + l) + i] = w[i]
  <2>1. v \in Seq(Call) /\ Len(v) = k + l /\ w \in Seq(Call) /\ Len(w) = 2
    BY <1>2, <1>6
  <2>2. /\ u \in Seq(Call) /\ Len(u) = Len(v) + Len(w)
        /\ \A i \in 1..Len(v) : u[i] = v[i]
        /\ \A i \in 1..Len(w) : u[Len(v) + i] = w[i]
    BY <1>5, <2>1, SeqConcat
  <2> QED BY <2>1, <2>2
<1>8. u[k + l + 1] = w[1] /\ u[k + l + 2] = w[2]
  BY <1>7
<1>9. k = 1 => u[1] = b[1]
  BY <1>3, <1>4, <1>6, <1>7
<1>10. l = 1 => u[k + 1] = a[1]
  BY <1>3, <1>6, <1>7
<1> QED BY <1>2, <1>3, <1>4, <1>7, <1>8, <1>9, <1>10 DEF u

-----------------------------------------------------------------------------
(* The invariant *)

Ahead == DOMAIN todo
Renames(i, to) == todo[i].step = "rename" /\ todo[i].to = to

\* A rename is followed by the sync of its directory, and calls are only under way while the
\* store or the recovery screen is at work.
CallsPaired ==
    /\ todo # <<>> => phase \in {"loading", "constructing", "running", "closing", "recovering"}
    /\ \A i \in Ahead : (todo[i].step = "copy" => todo[i].to \in Places) /\ (phase = "constructing" => todo[i].to = "file")
    /\ \A i \in Ahead : todo[i].step = "rename" =>
         i + 1 \in Ahead /\ todo[i + 1] = [step |-> "sync", to |-> todo[i].to, doc |-> todo[i].doc]

\* The file is written once in a row of calls, with what it may hold.
FileOnce ==
    \A i \in Ahead : todo[i].to = "file" =>
      /\ todo[i].doc \in accepted \cap Doc /\ todo[i].step # "copy"
      /\ \A j \in Ahead : j > i /\ todo[j].to = "file" => todo[i].step = "rename" /\ j = i + 1

\* What the file may hold
Complete == dir \in since /\ \A d \in since : d.file \in accepted

\* c is in its place, or is put there by a call before i.
PutBefore(place, c, i) ==
    c \in dir[place] \/ \E j \in 1..i - 1 : todo[j].to = place /\ todo[j].doc = c /\ todo[j].step # "sync"

\* Before the file is replaced, what is lost with it is put aside.
PutAside ==
    \A i \in Ahead : Renames(i, "file") =>
      /\ \A j \in 1..i - 1 : todo[j].to # "lastGood"
      /\ phase = "loading" => PutBefore("migrations", dir.file, i)
      /\ phase = "recovering" =>
           /\ dir.file # Missing => PutBefore("broken", dir.file, i)
           /\ dir.lastGood # Missing => PutBefore("archived", dir.lastGood, i)

\* A copy that was not synced and that a power loss took
Taken(x) == x[1] # "migrations" /\ x \in lost
Kept == \A d \in since : \A x \in d.gone : x[2] \in d[x[1]] \/ Taken(x)

\* What runs has not read a damaged file, unless it was damaged since.
NothingBad ==
    ~blind =>
      /\ phase \in {"loading", "constructing", "running", "closing"} => dir.file # Bad
      /\ \A d \in since : d.lastGood # Bad
      /\ \A i \in Ahead : todo[i].to = "lastGood" => todo[i].doc # Bad

Copies(doc) == dir.lastGood = doc \/ \E i \in Ahead : Renames(i, "lastGood") /\ todo[i].doc = doc

\* The last-good copy is written with what the file holds, or will hold by then.
CopyOfFile ==
    \A i \in Ahead : todo[i].to = "lastGood" =>
      /\ phase \in {"loading", "running", "closing"}
      /\ \A j \in Ahead : Renames(j, "file") => todo[i].doc = todo[j].doc
      /\ (\A j \in Ahead : ~Renames(j, "file")) => todo[i].doc = dir.file
      /\ phase # "loading" => \A j \in Ahead : todo[j].to = "lastGood"

\* The copy is what the file held since the close, or is about to be written.
CopySince == dir.lastGood \in closed \/ \E i \in Ahead : Renames(i, "lastGood")

\* The copy is up to date, will be, or is known not to be.
CopyKnown ==
    ~missed =>
      /\ phase = "loading" =>
           /\ \A i \in Ahead : Renames(i, "file") => Copies(todo[i].doc)
           /\ dir.file # Missing /\ (\A i \in Ahead : ~Renames(i, "file")) => Copies(dir.file)
      /\ phase = "running" /\ ~pending /\ dir.file \in Doc =>
           Copies(dir.file) \/ (todo # <<>> /\ todo[1].step = "sync" /\ todo[1].to = "file")
      /\ closed # {} /\ closed \subseteq Doc => CopySince

\* A closed store is one that is closing or has ended, and what it writes is known.
ClosedInOrder ==
    /\ closed # {} => phase \in {"closing", "down"}
    /\ phase = "closing" => dir.file \in closed

StorageInv ==
    /\ StorageTypeOK /\ CallsPaired /\ FileOnce /\ Complete /\ PutAside /\ Kept
    /\ NothingBad /\ CopyOfFile /\ CopyKnown /\ ClosedInOrder

LEMMA StorageInitially == StorageInit => StorageInv
<1> SUFFICES ASSUME StorageInit PROVE StorageInv
  OBVIOUS
<1>1. todo = <<>> /\ phase = "down" /\ since = {dir} /\ closed = {} /\ lost = {} /\ blind = FALSE
  BY DEF StorageInit
<1>2. PICK file \in {Missing} \cup {[schema |-> s, edit |-> 0] : s \in 0..1} :
        /\ dir = [file |-> file, lastGood |-> Missing, migrations |-> {}, broken |-> {}, archived |-> {}, gone |-> {}]
        /\ accepted = {file}
  BY DEF StorageInit
<1>3. file \in File
  BY <1>2, StorageAssumption DEF File, Content, Doc
<1>4. dir \in Directory /\ dir.file \in accepted /\ dir.lastGood = Missing /\ dir.gone = {}
  BY <1>2, <1>3 DEF Directory, File
<1>5. StorageTypeOK
  <2>1. accepted \subseteq File /\ since \subseteq Directory /\ soft \subseteq Places \X Content
    BY <1>1, <1>2, <1>3, <1>4 DEF StorageInit
  <2>4. lost \subseteq Places \X Content /\ closed \subseteq File
    BY <1>1
  <2>2. todo \in Seq(Call) /\ phase \in Phases /\ issue \in Issues /\ edits \in 0..MaxEdits /\ faults \in 0..MaxFaults
    BY <1>1, StorageAssumption DEF StorageInit, Phases, Issues
  <2>3. pending = FALSE /\ missed = FALSE /\ blind = FALSE
    BY DEF StorageInit
  <2> QED BY <1>4, <2>1, <2>2, <2>3, <2>4 DEF StorageTypeOK
<1>6. CallsPaired /\ FileOnce /\ PutAside /\ CopyOfFile
  BY <1>1 DEF CallsPaired, FileOnce, PutAside, CopyOfFile, Ahead
<1>7. Complete /\ Kept /\ NothingBad /\ CopyKnown /\ ClosedInOrder
  BY <1>1, <1>4, StorageAssumption DEF Complete, Kept, Taken, NothingBad, CopyKnown, ClosedInOrder, Ahead
<1> QED BY <1>5, <1>6, <1>7 DEF StorageInv

\* Without calls ahead there is nothing to say of them.
LEMMA NothingAhead ==
  ASSUME todo' = <<>>
  PROVE  CallsPaired' /\ FileOnce' /\ PutAside' /\ CopyOfFile'
  BY DEF CallsPaired, FileOnce, PutAside, CopyOfFile, Ahead

LEMMA IdleNothing ==
  ASSUME StorageInv, phase \in {"down", "blocked"}
  PROVE  todo = <<>>
  BY DEF StorageInv, CallsPaired

-----------------------------------------------------------------------------
(* Steps that leave no calls *)

\* A directory in which nothing was taken away keeps what another one kept.
LEMMA KeptOn ==
  ASSUME StorageInv, NEW d \in Directory, NEW e \in Directory, e \in since,
         \A x \in d.gone : x \in e.gone \/ x[2] \in d[x[1]],
         e.migrations \subseteq d.migrations, e.broken \subseteq d.broken, e.archived \subseteq d.archived
  PROVE  \A x \in d.gone : x[2] \in d[x[1]] \/ Taken(x)
<1> SUFFICES ASSUME NEW x \in d.gone PROVE x[2] \in d[x[1]] \/ Taken(x)
  OBVIOUS
<1>1. x[1] \in Places
  BY DEF Directory
<1>2. e[x[1]] \subseteq d[x[1]]
  BY <1>1 DEF Places, Directory
<1> QED BY <1>2 DEF StorageInv, Kept, Taken

LEMMA RetryStep == ASSUME StorageInv, Retry PROVE StorageInv'
<1>1. todo = <<>> /\ todo' = <<>> /\ phase = "blocked" /\ phase' = "down" /\ closed = {}
  BY IdleNothing DEF Retry, StorageInv, ClosedInOrder
<1>2. UNCHANGED <<dir, since, soft, pending, edits, faults, accepted, closed, lost, missed, blind>>
  BY DEF Retry
<1>3. StorageTypeOK'
  BY <1>1, <1>2 DEF Retry, StorageInv, StorageTypeOK, Phases, Issues
<1>4. Complete' /\ Kept' /\ NothingBad' /\ CopyKnown' /\ ClosedInOrder'
  BY <1>1, <1>2 DEF StorageInv, Complete, Kept, Taken, NothingBad, CopyKnown, ClosedInOrder, Ahead
<1> QED BY <1>1, <1>3, <1>4, NothingAhead DEF StorageInv

LEMMA EndStep == ASSUME StorageInv, End PROVE StorageInv'
<1>1. todo = <<>> /\ todo' = <<>> /\ phase' = "down" /\ phase \in {"closing", "recovering"}
  BY DEF End
<1>2. UNCHANGED <<dir, since, soft, pending, edits, faults, accepted, closed, lost, missed, blind>>
  BY DEF End
<1>3. StorageTypeOK'
  BY <1>1, <1>2 DEF End, StorageInv, StorageTypeOK, Phases, Issues
<1>4. Complete' /\ Kept' /\ NothingBad' /\ ClosedInOrder'
  BY <1>1, <1>2 DEF StorageInv, Complete, Kept, Taken, NothingBad, ClosedInOrder, Ahead
<1>5. CopyKnown'
  <2>1. ~missed /\ closed # {} /\ closed \subseteq Doc => dir.lastGood \in closed
    BY <1>1 DEF StorageInv, CopyKnown, CopySince, Ahead
  <2> QED BY <1>1, <1>2, <2>1 DEF CopyKnown, CopySince
<1> QED BY <1>1, <1>3, <1>4, <1>5, NothingAhead DEF StorageInv

LEMMA UnreadableStep == ASSUME StorageInv, Unreadable PROVE StorageInv'
<1>1. todo = <<>> /\ todo' = <<>> /\ phase' = "blocked" /\ closed' = {}
  BY IdleNothing DEF Unreadable
<1>2. UNCHANGED <<dir, since, soft, pending, edits, accepted, lost, missed, blind>> /\ faults' \in 0..MaxFaults
  BY StorageAssumption DEF Unreadable, Fault, StorageInv, StorageTypeOK
<1>3. StorageTypeOK'
  BY <1>1, <1>2 DEF Unreadable, StorageInv, StorageTypeOK, Phases, Issues
<1>4. Complete' /\ Kept' /\ NothingBad' /\ CopyKnown' /\ ClosedInOrder'
  BY <1>1, <1>2 DEF StorageInv, Complete, Kept, Taken, NothingBad, CopyKnown, ClosedInOrder, Ahead
<1> QED BY <1>1, <1>3, <1>4, NothingAhead DEF StorageInv

LEMMA DowngradeStep == ASSUME StorageInv, Downgrade PROVE StorageInv'
<1> DEFINE doc == [schema |-> 0, edit |-> edits + 1]
<1>1. todo = <<>> /\ todo' = <<>> /\ phase = "down" /\ phase' = "down" /\ closed' = {}
  BY IdleNothing DEF Downgrade
<1>2. /\ dir' = [dir EXCEPT !.file = doc] /\ since' = {dir'} /\ accepted' = {dir'.file}
      /\ UNCHANGED <<soft, issue, pending, lost, missed, blind>> /\ edits' \in 0..MaxEdits /\ faults' \in 0..MaxFaults
  BY StorageAssumption DEF Downgrade, Fault, StorageInv, StorageTypeOK
<1>3. doc \in File
  BY StorageAssumption DEF Downgrade, StorageInv, StorageTypeOK, File, Content, Doc
<1>4. dir' \in Directory /\ dir'.lastGood = dir.lastGood /\ dir'.gone = dir.gone
      /\ dir'.migrations = dir.migrations /\ dir'.broken = dir.broken /\ dir'.archived = dir.archived
  BY <1>2, <1>3 DEF StorageInv, StorageTypeOK, Directory
<1>5. StorageTypeOK'
  BY <1>1, <1>2, <1>3, <1>4 DEF StorageInv, StorageTypeOK, Phases, Issues, Directory
<1>6. Kept'
  <2>1. dir \in since /\ dir \in Directory
    BY DEF StorageInv, Complete, StorageTypeOK
  <2>2. \A x \in dir'.gone : x[2] \in dir'[x[1]] \/ Taken(x)
    BY <1>4, <2>1, KeptOn
  <2> QED BY <1>2, <2>2 DEF Kept, Taken
<1>7. Complete' /\ NothingBad' /\ CopyKnown' /\ ClosedInOrder'
  BY <1>1, <1>2, <1>4 DEF StorageInv, Complete, NothingBad, CopyKnown, ClosedInOrder, Ahead
<1> QED BY <1>1, <1>5, <1>6, <1>7, NothingAhead DEF StorageInv

LEMMA DamageStep == ASSUME StorageInv, NEW left \in {Bad, Missing}, Damage(left) PROVE StorageInv'
<1>1. /\ todo = <<>> /\ todo' = <<>> /\ phase \in {"down", "running", "blocked"} /\ phase' = phase
      /\ dir' = [dir EXCEPT !.file = left] /\ since' = {dir'} /\ accepted' = {left}
      /\ UNCHANGED <<soft, issue, pending, edits, closed, lost, missed>> /\ faults' \in 0..MaxFaults
  BY StorageAssumption DEF Damage, Fault, StorageInv, StorageTypeOK
<1>2. blind' \in BOOLEAN /\ (~blind' => ~blind /\ phase # "running")
  BY DEF Damage, StorageInv, StorageTypeOK
<1>3. left \in File /\ left \notin Doc
  BY StorageAssumption DEF File, Content, Doc
<1>4. /\ dir' \in Directory /\ dir'.file = left /\ dir'.lastGood = dir.lastGood /\ dir'.gone = dir.gone
      /\ dir'.migrations = dir.migrations /\ dir'.broken = dir.broken /\ dir'.archived = dir.archived
  BY <1>1, <1>3 DEF StorageInv, StorageTypeOK, Directory
<1>5. StorageTypeOK'
  BY <1>1, <1>2, <1>3, <1>4 DEF StorageInv, StorageTypeOK
<1>6. Kept'
  <2>1. dir \in since /\ dir \in Directory
    BY DEF StorageInv, Complete, StorageTypeOK
  <2>2. \A x \in dir'.gone : x[2] \in dir'[x[1]] \/ Taken(x)
    BY <1>4, <2>1, KeptOn
  <2> QED BY <1>1, <2>2 DEF Kept, Taken
<1>7. Complete' /\ CopyKnown' /\ ClosedInOrder'
  <2>1. ~missed /\ closed # {} /\ closed \subseteq Doc => CopySince'
    BY <1>1, <1>4 DEF StorageInv, CopyKnown, CopySince, Ahead
  <2>2. CopyKnown'
    BY <1>1, <1>3, <1>4, <2>1 DEF CopyKnown
  <2> QED BY <1>1, <1>4, <2>2 DEF StorageInv, Complete, ClosedInOrder
<1>8. NothingBad'
  BY <1>1, <1>2, <1>4 DEF StorageInv, Complete, NothingBad, Ahead
<1> QED BY <1>1, <1>5, <1>6, <1>7, <1>8, NothingAhead DEF StorageInv

LEMMA CrashStep == ASSUME StorageInv, Crash PROVE StorageInv'
<1>1. /\ todo' = <<>> /\ phase # "down" /\ phase' = "down" /\ issue' = "none" /\ pending' = FALSE
      /\ dir' \in Torn(dir) /\ since' = since \cup {dir'}
      /\ closed' = {} /\ UNCHANGED <<soft, edits, accepted, lost, missed, blind>> /\ faults' \in 0..MaxFaults
  BY StorageAssumption DEF Crash, Fault, StorageInv, StorageTypeOK
<1>3. /\ dir' \in Directory /\ dir'.file = dir.file /\ dir'.lastGood = dir.lastGood /\ dir'.gone = dir.gone
      /\ dir.migrations \subseteq dir'.migrations /\ dir.broken \subseteq dir'.broken /\ dir.archived \subseteq dir'.archived
  <2>1. CASE dir' = dir
    BY <2>1 DEF StorageInv, StorageTypeOK
  <2>2. CASE dir' # dir
    <3>1. todo # <<>> /\ Next1.step = "copy" /\ dir' = [dir EXCEPT ![Next1.to] = @ \cup {Bad}]
      BY <1>1, <2>2 DEF Torn
    <3>2. Next1.to \in Places
      BY <3>1, SeqFacts DEF StorageInv, StorageTypeOK, CallsPaired, Ahead, Next1
    <3>3. dir \in Directory /\ Bad \in Content
      BY DEF StorageInv, StorageTypeOK, Content
    <3>4. CASE Next1.to = "migrations"
      BY <3>1, <3>3, <3>4 DEF Directory
    <3>5. CASE Next1.to = "broken"
      BY <3>1, <3>3, <3>5 DEF Directory
    <3>6. CASE Next1.to = "archived"
      BY <3>1, <3>3, <3>6 DEF Directory
    <3> QED BY <3>2, <3>4, <3>5, <3>6 DEF Places
  <2> QED BY <2>1, <2>2
<1>4. StorageTypeOK'
  <2>1. phase' \in Phases /\ issue' \in Issues /\ todo' \in Seq(Call) /\ pending' \in BOOLEAN
    BY <1>1, NoCalls DEF Phases, Issues
  <2> QED BY <1>1, <1>3, <2>1 DEF StorageInv, StorageTypeOK
<1>5. Kept'
  <2>1. dir \in since /\ dir \in Directory
    BY DEF StorageInv, Complete, StorageTypeOK
  <2>2. \A x \in dir'.gone : x[2] \in dir'[x[1]] \/ Taken(x)
    BY <1>3, <2>1, KeptOn
  <2> QED BY <1>1, <2>2 DEF StorageInv, Kept, Taken
<1>6. Complete'
  BY <1>1, <1>3 DEF StorageInv, Complete
<1>7. NothingBad' /\ CopyKnown' /\ ClosedInOrder'
  BY <1>1, <1>3 DEF StorageInv, Complete, NothingBad, CopyKnown, ClosedInOrder, Ahead
<1> QED BY <1>1, <1>4, <1>5, <1>6, <1>7, NothingAhead DEF StorageInv

LEMMA PowerLossStep == ASSUME StorageInv, PowerLoss PROVE StorageInv'
<1>1. PICK d \in since, taken \in SUBSET soft :
         /\ dir' = [d EXCEPT !.broken = @ \ {c \in Content : <<"broken", c>> \in taken},
                             !.archived = @ \ {c \in Content : <<"archived", c>> \in taken}]
         /\ lost' = (lost \cup taken) \cap d.gone
  BY DEF PowerLoss
<1>2. /\ todo' = <<>> /\ phase' = "down" /\ issue' = "none" /\ pending' = FALSE /\ since' = {dir'} /\ soft' = {}
      /\ closed' = (IF phase = "down" /\ since = {dir} THEN closed ELSE {})
      /\ UNCHANGED <<edits, accepted, missed, blind>> /\ faults < MaxFaults /\ faults' = faults + 1
  BY DEF PowerLoss, Fault
<1>3. closed' \subseteq closed /\ (closed' # {} => closed' = closed /\ since = {dir} /\ phase = "down")
  BY <1>2
<1>4. d \in Directory
  BY <1>1 DEF StorageInv, StorageTypeOK
<1>5. /\ dir' \in Directory /\ dir'.file = d.file /\ dir'.lastGood = d.lastGood /\ dir'.gone = d.gone
      /\ dir'.migrations = d.migrations
      /\ dir'.broken = d.broken \ {c \in Content : <<"broken", c>> \in taken}
      /\ dir'.archived = d.archived \ {c \in Content : <<"archived", c>> \in taken}
  BY <1>1, <1>4 DEF Directory
<1>6. StorageTypeOK'
  <2>1. faults' \in 0..MaxFaults /\ edits' \in 0..MaxEdits /\ accepted' \subseteq File /\ missed' \in BOOLEAN /\ blind' \in BOOLEAN
    BY <1>2, StorageAssumption DEF StorageInv, StorageTypeOK
  <2>2. phase' \in Phases /\ issue' \in Issues /\ todo' \in Seq(Call) /\ pending' \in BOOLEAN
    BY <1>2, NoCalls DEF Phases, Issues
  <2>3. closed' \subseteq File /\ lost' \subseteq Places \X Content
    BY <1>1, <1>3 DEF StorageInv, StorageTypeOK
  <2> QED BY <1>2, <1>5, <2>1, <2>2, <2>3 DEF StorageTypeOK
<1>7. Kept'
  <2> SUFFICES ASSUME NEW x \in d.gone PROVE x[2] \in dir'[x[1]] \/ Taken(x)'
    BY <1>2, <1>5 DEF Kept, Taken
  <2>1. x \in Places \X Content /\ x = <<x[1], x[2]>> /\ x[1] \in Places /\ (x[2] \in d[x[1]] \/ Taken(x))
    BY <1>4 DEF Directory, StorageInv, Kept, Taken
  <2>2. CASE Taken(x)
    BY <1>1, <2>2 DEF Taken
  <2>3. CASE x[2] \in d[x[1]]
    <3>1. x \in taken /\ x[1] # "migrations" => Taken(x)'
      BY <1>1 DEF Taken
    <3>2. CASE x[1] = "migrations" BY <1>5, <2>3, <3>2
    <3>3. CASE x[1] = "broken" BY <1>5, <2>1, <2>3, <3>1, <3>3
    <3>4. CASE x[1] = "archived" BY <1>5, <2>1, <2>3, <3>1, <3>4
    <3> QED BY <2>1, <3>2, <3>3, <3>4 DEF Places
  <2> QED BY <2>1, <2>2, <2>3
<1>8. Complete' /\ NothingBad'
  BY <1>2, <1>5 DEF StorageInv, Complete, NothingBad, Ahead
<1>9. CopyKnown' /\ ClosedInOrder'
  <2>2. closed' # {} => dir'.lastGood = dir.lastGood
    BY <1>1, <1>3, <1>5
  <2>3. ~missed /\ closed' # {} /\ closed' \subseteq Doc => dir'.lastGood \in closed'
    <3>1. phase = "down" => todo = <<>>
      BY DEF StorageInv, CallsPaired
    <3> QED BY <1>3, <2>2, <3>1 DEF StorageInv, CopyKnown, CopySince, Ahead
  <2> QED BY <1>2, <2>3 DEF CopyKnown, CopySince, ClosedInOrder
<1> QED BY <1>2, <1>6, <1>7, <1>8, <1>9, NothingAhead DEF StorageInv

-----------------------------------------------------------------------------
(* Steps that begin a row of calls *)

LEMMA NewDocs == ASSUME StorageInv, edits < MaxEdits PROVE NewDoc \in Doc /\ NewDoc \in Content /\ edits + 1 \in 0..MaxEdits
  BY StorageAssumption DEF StorageInv, StorageTypeOK, NewDoc, Doc, Content

\* A row of calls that only writes the file
LEMMA FileAhead ==
  ASSUME NEW doc \in Doc, todo' = Write("file", doc), doc \in accepted', phase' \in {"constructing", "running", "closing"}
  PROVE  /\ todo' \in Seq(Call) /\ CallsPaired' /\ FileOnce' /\ PutAside' /\ CopyOfFile'
         /\ todo' # <<>> /\ \A i \in Ahead' : todo'[i].to # "lastGood"
<1>1. doc \in Content /\ "file" \in Tos
  BY DEF Content, Tos
<1>2. /\ todo' \in Seq(Call) /\ Len(todo') = 2 /\ DOMAIN todo' = 1..2 /\ todo' # <<>>
      /\ todo'[1] = Rename("file", doc) /\ todo'[2] = Sync("file", doc)
  BY <1>1, WriteFacts
<1>3. \A i \in DOMAIN todo' : (i = 1 /\ todo'[i] = Rename("file", doc)) \/ (i = 2 /\ todo'[i] = Sync("file", doc))
  BY <1>2
<1>4. CallsPaired'
  BY <1>2, <1>3 DEF CallsPaired, Ahead, Rename, Sync
<1>5. FileOnce'
  BY <1>2, <1>3 DEF FileOnce, Ahead, Rename, Sync
<1>6. \A i \in Ahead' : todo'[i].to # "lastGood"
  BY <1>3 DEF Ahead, Rename, Sync
<1>7. PutAside' /\ CopyOfFile'
  BY <1>2, <1>3, <1>6 DEF PutAside, CopyOfFile, Ahead
<1> QED BY <1>2, <1>4, <1>5, <1>6, <1>7

LEMMA PersistStep == ASSUME StorageInv, Persist PROVE StorageInv'
<1>1. /\ phase \in {"running", "closing"} /\ todo = <<>> /\ edits' = edits + 1 /\ todo' = Write("file", NewDoc)
      /\ accepted' = accepted \cup {NewDoc} /\ UNCHANGED <<dir, since, soft, phase, issue, pending, faults, closed, lost, missed, blind>>
  BY DEF Persist
<1>2. NewDoc \in Doc /\ NewDoc \in Content /\ edits + 1 \in 0..MaxEdits
  BY NewDocs DEF Persist
<1>3. /\ todo' \in Seq(Call) /\ CallsPaired' /\ FileOnce' /\ PutAside' /\ CopyOfFile'
      /\ \A i \in Ahead' : todo'[i].to # "lastGood"
  BY <1>1, <1>2, FileAhead
<1>4. StorageTypeOK'
  BY <1>1, <1>2, <1>3 DEF StorageInv, StorageTypeOK, File
<1>5. Complete' /\ Kept' /\ NothingBad' /\ ClosedInOrder'
  BY <1>1, <1>3 DEF StorageInv, Complete, Kept, Taken, NothingBad, ClosedInOrder
<1>6. CopyKnown'
  <2>1. ~missed /\ phase = "running" /\ ~pending /\ dir.file \in Doc => dir.lastGood = dir.file
    BY <1>1 DEF StorageInv, CopyKnown, Copies, Ahead
  <2>2. ~missed /\ closed # {} /\ closed \subseteq Doc => dir.lastGood \in closed
    BY <1>1 DEF StorageInv, CopyKnown, CopySince, Ahead
  <2> QED BY <1>1, <2>1, <2>2 DEF StorageInv, CopyKnown, Copies, CopySince
<1> QED BY <1>3, <1>4, <1>5, <1>6 DEF StorageInv

LEMMA ConstructStep == ASSUME StorageInv, NEW writes \in BOOLEAN, Construct(writes) PROVE StorageInv'
<1>1. /\ phase = "loading" /\ todo = <<>> /\ pending' = FALSE
      /\ UNCHANGED <<dir, since, soft, issue, faults, closed, lost, missed, blind>>
  BY DEF Construct
<1>2. CASE writes
  <2>1. edits' = edits + 1 /\ todo' = Write("file", NewDoc) /\ accepted' = accepted \cup {NewDoc} /\ phase' = "constructing"
    BY <1>2 DEF Construct
  <2>2. NewDoc \in Doc /\ NewDoc \in Content /\ edits + 1 \in 0..MaxEdits
    BY <1>2, NewDocs DEF Construct
  <2>3. /\ todo' \in Seq(Call) /\ CallsPaired' /\ FileOnce' /\ PutAside' /\ CopyOfFile'
        /\ \A i \in Ahead' : todo'[i].to # "lastGood"
    BY <2>1, <2>2, FileAhead
  <2>4. StorageTypeOK'
    BY <1>1, <2>1, <2>2, <2>3 DEF StorageInv, StorageTypeOK, File, Phases
  <2>5. Complete' /\ Kept' /\ NothingBad' /\ ClosedInOrder' /\ CopyKnown'
    <3>1. closed = {}
      BY <1>1 DEF StorageInv, ClosedInOrder
    <3> QED BY <1>1, <2>1, <2>3, <3>1 DEF StorageInv, Complete, Kept, Taken, NothingBad, ClosedInOrder, CopyKnown
  <2> QED BY <2>3, <2>4, <2>5 DEF StorageInv
<1>3. CASE ~writes
  <2>1. phase' = "running" /\ todo' = <<>> /\ UNCHANGED <<edits, accepted>>
    BY <1>1, <1>3 DEF Construct
  <2>2. StorageTypeOK'
    BY <1>1, <2>1 DEF StorageInv, StorageTypeOK, Phases
  <2>3. Complete' /\ Kept' /\ NothingBad' /\ ClosedInOrder'
    BY <1>1, <2>1 DEF StorageInv, Complete, Kept, Taken, NothingBad, ClosedInOrder, Ahead
  <2>4. CopyKnown'
    <3>1. ~missed /\ dir.file # Missing => dir.lastGood = dir.file
      BY <1>1 DEF StorageInv, CopyKnown, Copies, Ahead
    <3>2. dir.file \in Doc => dir.file # Missing
      BY StorageAssumption DEF Doc
    <3> QED BY <1>1, <2>1, <3>1, <3>2 DEF StorageInv, CopyKnown, Copies, ClosedInOrder
  <2> QED BY <2>1, <2>2, <2>3, <2>4, NothingAhead DEF StorageInv
<1> QED BY <1>2, <1>3

\* A row of calls that only refreshes the last-good copy, or nothing at all
LEMMA CopyAhead ==
  ASSUME StorageTypeOK, dir' = dir, todo' = RefreshLastGood(dir.file), phase' \in {"loading", "running", "closing"}
  PROVE  /\ todo' \in Seq(Call) /\ CallsPaired' /\ FileOnce' /\ PutAside' /\ CopyOfFile'
         /\ \A i \in Ahead' : todo'[i].to = "lastGood" /\ todo'[i].doc = dir.file
         /\ dir.file # Missing => Copies(dir.file)'
<1>1. dir.file \in File
  BY DEF StorageTypeOK, Directory
<1> DEFINE u == RefreshLastGood(dir.file)
<1>2. /\ u \in Seq(Call)
      /\ \/ Len(u) = 0 /\ (dir.file = Missing \/ dir.file = dir.lastGood)
         \/ Len(u) = 2 /\ u[1] = Rename("lastGood", dir.file) /\ u[2] = Sync("lastGood", dir.file)
  BY <1>1, RefreshCalls
<1> HIDE DEF u
<1>3. todo' = u
  BY DEF u
<1>4. CASE Len(u) = 0
  <2>1. todo' = <<>>
    BY <1>2, <1>3, <1>4
  <2>2. DOMAIN todo' = {}
    BY <2>1
  <2>3. dir.file = Missing \/ dir.file = dir.lastGood
    BY <1>2, <1>4
  <2> QED BY <1>2, <1>3, <2>1, <2>2, <2>3, NothingAhead DEF Ahead, Copies
<1>5. CASE Len(u) = 2
  <2>1. /\ todo' \in Seq(Call) /\ DOMAIN todo' = 1..2 /\ todo' # <<>>
        /\ todo'[1] = Rename("lastGood", dir.file) /\ todo'[2] = Sync("lastGood", dir.file)
    BY <1>2, <1>3, <1>5
  <2>2. \A i \in DOMAIN todo' : (i = 1 /\ todo'[i] = Rename("lastGood", dir.file)) \/ (i = 2 /\ todo'[i] = Sync("lastGood", dir.file))
    BY <2>1
  <2>3. CallsPaired'
    BY <2>1, <2>2 DEF CallsPaired, Ahead, Rename, Sync
  <2>4. \A i \in Ahead' : todo'[i].to = "lastGood" /\ todo'[i].doc = dir.file
    BY <2>2 DEF Ahead, Rename, Sync
  <2>5. FileOnce' /\ PutAside' /\ CopyOfFile'
    BY <2>4 DEF FileOnce, PutAside, CopyOfFile, Renames
  <2>6. Copies(dir.file)'
    BY <2>1 DEF Copies, Ahead, Renames, Rename
  <2> QED BY <2>1, <2>3, <2>4, <2>5, <2>6
<1> QED BY <1>2, <1>4, <1>5

LEMMA CloseStep == ASSUME StorageInv, Close PROVE StorageInv'
<1>1. /\ phase = "running" /\ todo = <<>> /\ phase' = "closing" /\ pending' = FALSE /\ closed' = {dir.file}
      /\ todo' = (IF pending THEN RefreshLastGood(dir.file) ELSE <<>>)
      /\ UNCHANGED <<dir, since, soft, issue, edits, faults, accepted, lost, missed, blind>>
  BY DEF Close
<1>2. /\ todo' \in Seq(Call) /\ CallsPaired' /\ FileOnce' /\ PutAside' /\ CopyOfFile'
      /\ \A i \in Ahead' : todo'[i].to = "lastGood" /\ todo'[i].doc = dir.file
      /\ ~missed /\ dir.file \in Doc => Copies(dir.file)'
  <2>1. dir.file \in Doc => dir.file # Missing
    BY StorageAssumption DEF Doc
  <2>2. CASE pending
    BY <1>1, <2>1, <2>2, CopyAhead DEF StorageInv
  <2>3. CASE ~pending
    <3>1. todo' = <<>> /\ DOMAIN todo' = {}
      BY <1>1, <2>3
    <3>2. ~missed /\ dir.file \in Doc => dir.lastGood = dir.file
      BY <1>1, <2>3 DEF StorageInv, CopyKnown, Copies, Ahead
    <3> QED BY <1>1, <3>1, <3>2, NothingAhead, NoCalls DEF Ahead, Copies
  <2> QED BY <2>2, <2>3 DEF StorageInv, StorageTypeOK
<1>3. StorageTypeOK'
  <2>1. dir.file \in File
    BY DEF StorageInv, StorageTypeOK, Directory
  <2> QED BY <1>1, <1>2, <2>1 DEF StorageInv, StorageTypeOK, Phases
<1>4. Complete' /\ Kept' /\ NothingBad' /\ ClosedInOrder'
  BY <1>1, <1>2 DEF StorageInv, Complete, Kept, Taken, NothingBad, ClosedInOrder
<1>5. CopyKnown'
  <2>1. ~missed /\ dir.file \in Doc => CopySince'
    BY <1>1, <1>2 DEF Copies, CopySince
  <2> QED BY <1>1, <2>1 DEF CopyKnown
<1> QED BY <1>2, <1>3, <1>4, <1>5 DEF StorageInv

LEMMA RecoverStep == ASSUME StorageInv, NEW doc \in Doc, Recover(doc) PROVE StorageInv'
<1>1. /\ phase = "blocked" /\ todo = <<>> /\ phase' = "recovering" /\ todo' = Replace(doc)
      /\ accepted' = accepted \cup {doc}
      /\ UNCHANGED <<dir, since, soft, issue, pending, edits, faults, closed, lost, missed, blind>>
  BY IdleNothing DEF Recover
<1> DEFINE k == IF dir.file = Missing THEN 0 ELSE 1
           l == IF dir.lastGood = Missing THEN 0 ELSE 1
<1>2. dir.file \in File /\ dir.lastGood \in File /\ doc \in File
  BY DEF StorageInv, StorageTypeOK, Directory, File, Content
<1>3. /\ k \in {0, 1} /\ (dir.file # Missing => k = 1)
      /\ l \in {0, 1} /\ (dir.lastGood # Missing => l = 1)
  OBVIOUS
<1>4. /\ todo' \in Seq(Call) /\ Len(todo') = k + l + 2
      /\ k = 1 => todo'[1] = CopyTo("broken", dir.file)
      /\ l = 1 => todo'[k + 1] = CopyTo("archived", dir.lastGood)
      /\ todo'[k + l + 1] = Rename("file", doc) /\ todo'[k + l + 2] = Sync("file", doc)
  BY <1>1, <1>2, ReplaceCalls
<1> HIDE DEF k, l
<1>5. DOMAIN todo' = 1..(k + l + 2) /\ todo' # <<>>
  BY <1>3, <1>4
<1>6. \A i \in DOMAIN todo' :
        \/ i = 1 /\ k = 1 /\ todo'[i] = CopyTo("broken", dir.file)
        \/ i = k + 1 /\ l = 1 /\ todo'[i] = CopyTo("archived", dir.lastGood)
        \/ i = k + l + 1 /\ todo'[i] = Rename("file", doc)
        \/ i = k + l + 2 /\ todo'[i] = Sync("file", doc)
  BY <1>3, <1>4, <1>5
<1>7. CallsPaired'
  BY <1>1, <1>3, <1>4, <1>5, <1>6 DEF CallsPaired, Ahead, CopyTo, Rename, Sync, Places
<1>8. FileOnce'
  BY <1>1, <1>3, <1>5, <1>6 DEF FileOnce, Ahead, CopyTo, Rename, Sync
<1>9. \A i \in Ahead' : todo'[i].to # "lastGood"
  BY <1>6 DEF Ahead, CopyTo, Rename, Sync
<1>10. CopyOfFile'
  BY <1>9 DEF CopyOfFile
<1>11. PutAside'
  <2> SUFFICES ASSUME NEW i \in Ahead', Renames(i, "file")'
               PROVE  /\ \A j \in 1..i - 1 : todo'[j].to # "lastGood"
                      /\ dir'.file # Missing => PutBefore("broken", dir.file, i)'
                      /\ dir'.lastGood # Missing => PutBefore("archived", dir.lastGood, i)'
    BY <1>1 DEF PutAside
  <2>1. i = k + l + 1
    BY <1>6 DEF Ahead, Renames, CopyTo, Rename, Sync
  <2>2. \A j \in 1..i - 1 : todo'[j].to # "lastGood"
    BY <1>3, <1>5, <1>9, <2>1 DEF Ahead
  <2>3. ASSUME dir.file # Missing PROVE PutBefore("broken", dir.file, i)'
    <3>1. k = 1 /\ 1 \in 1..i - 1 /\ todo'[1] = CopyTo("broken", dir.file)
      BY <1>3, <1>4, <2>1, <2>3
    <3> QED BY <1>1, <3>1 DEF PutBefore, CopyTo
  <2>4. ASSUME dir.lastGood # Missing PROVE PutBefore("archived", dir.lastGood, i)'
    <3>1. l = 1 /\ k + 1 \in 1..i - 1 /\ todo'[k + 1] = CopyTo("archived", dir.lastGood)
      BY <1>3, <1>4, <2>1, <2>4
    <3> QED BY <1>1, <3>1 DEF PutBefore, CopyTo
  <2> QED BY <1>1, <2>2, <2>3, <2>4
<1>12. StorageTypeOK'
  BY <1>1, <1>2, <1>4 DEF StorageInv, StorageTypeOK, Phases
<1>13. Complete' /\ Kept' /\ NothingBad' /\ ClosedInOrder' /\ CopyKnown'
  BY <1>1, <1>9 DEF StorageInv, Complete, Kept, Taken, NothingBad, ClosedInOrder, CopyKnown
<1> QED BY <1>7, <1>8, <1>10, <1>11, <1>12, <1>13 DEF StorageInv

LEMMA LoadStep == ASSUME StorageInv, Load PROVE StorageInv'
<1>1. /\ phase = "down" /\ todo = <<>> /\ closed' = {}
      /\ UNCHANGED <<dir, since, soft, pending, edits, faults, lost, missed, blind>>
  BY IdleNothing DEF Load
<1>2. CASE phase' = "blocked"
  <2>1. /\ todo' = todo /\ UNCHANGED accepted /\ (issue' = "damaged" \/ issue' = issue)
    BY <1>2 DEF Load
  <2>2. StorageTypeOK'
    BY <1>1, <1>2, <2>1 DEF StorageInv, StorageTypeOK, Phases, Issues
  <2>3. Complete' /\ Kept' /\ NothingBad' /\ ClosedInOrder' /\ CopyKnown'
    BY <1>1, <1>2, <2>1 DEF StorageInv, Complete, Kept, Taken, NothingBad, ClosedInOrder, CopyKnown, Ahead
  <2> QED BY <1>1, <2>1, <2>2, <2>3, NothingAhead DEF StorageInv
<1>3. CASE phase' = "loading" /\ dir.file = Missing
  <2>1. todo' = todo /\ UNCHANGED <<accepted, issue>>
    BY <1>3, StorageAssumption DEF Load, Doc
  <2>2. StorageTypeOK'
    BY <1>1, <1>3, <2>1 DEF StorageInv, StorageTypeOK, Phases, Issues
  <2>3. Complete' /\ Kept' /\ NothingBad' /\ ClosedInOrder' /\ CopyKnown'
    BY <1>1, <1>3, <2>1, StorageAssumption DEF StorageInv, Complete, Kept, Taken, NothingBad, ClosedInOrder, CopyKnown, Ahead
  <2> QED BY <1>1, <2>1, <2>2, <2>3, NothingAhead DEF StorageInv
<1>4. CASE phase' = "loading" /\ dir.file # Missing
  <2>0. PICK m : m = Migrated(dir.file)
    OBVIOUS
  <2>1. /\ dir.file \in Doc /\ UNCHANGED issue /\ accepted' = accepted \cup {m}
        /\ todo' = IF dir.file.schema = 1 THEN RefreshLastGood(dir.file)
                   ELSE EnsureBackup(dir.file) \o Write("file", m) \o RefreshLastGood(m)
    BY <1>4, <2>0 DEF Load
  <2>2. m \in Doc /\ m \in File /\ dir.file \in Content /\ dir.file # Bad
    BY <2>0, <2>1, StorageAssumption DEF Migrated, Doc, Content, File
  <2>3. Complete' /\ Kept' /\ ClosedInOrder'
    BY <1>1, <1>4, <2>1 DEF StorageInv, Complete, Kept, Taken, ClosedInOrder
  <2>4. CASE dir.file.schema = 1
    <3>1. todo' = RefreshLastGood(dir.file)
      BY <2>1, <2>4
    <3>2. /\ todo' \in Seq(Call) /\ CallsPaired' /\ FileOnce' /\ PutAside' /\ CopyOfFile'
          /\ \A i \in Ahead' : todo'[i].to = "lastGood" /\ todo'[i].doc = dir.file
          /\ Copies(dir.file)'
      BY <1>1, <1>4, <3>1, CopyAhead DEF StorageInv
    <3>3. StorageTypeOK'
      BY <1>1, <1>4, <2>1, <2>2, <3>2 DEF StorageInv, StorageTypeOK, Phases
    <3>4. NothingBad'
      BY <1>1, <1>4, <2>2, <3>2 DEF StorageInv, NothingBad
    <3>5. CopyKnown'
      BY <1>1, <1>4, <3>2 DEF CopyKnown, Renames
    <3> QED BY <2>3, <3>2, <3>3, <3>4, <3>5 DEF StorageInv
  <2>5. CASE dir.file.schema # 1
    <3>1. todo' = EnsureBackup(dir.file) \o Write("file", m) \o RefreshLastGood(m)
      BY <2>1, <2>5
    <3>2. PICK k \in {0, 2} : Migrating(todo', dir.file, m, k)
      BY <2>2, <3>1, LoadCalls
    <3>3. todo' \in Seq(Call) /\ todo' # <<>>
      BY <3>2 DEF Migrating
    <3>4. CallsPaired'
      BY <1>4, <3>2 DEF CallsPaired, Ahead, Sync, Migrating
    <3>5. FileOnce'
      <4>1. \A i, j \in DOMAIN todo' : todo'[i].to = "file" /\ todo'[j].to = "file" /\ j > i => todo'[i].step = "rename" /\ j = i + 1
        <5> SUFFICES ASSUME NEW i \in DOMAIN todo', NEW j \in DOMAIN todo', todo'[i].to = "file", todo'[j].to = "file", j > i
                     PROVE  todo'[i].step = "rename" /\ j = i + 1
          OBVIOUS
        <5> QED BY <3>2 DEF Migrating
      <4>2. m \in accepted' \cap Doc
        BY <2>1, <2>2
      <4> QED BY <1>4, <3>2, <4>1, <4>2 DEF FileOnce, Ahead, Migrating
    <3>6. ASSUME NEW i \in Ahead', Renames(i, "file")' PROVE i = k + 1
      BY <3>2, <3>6 DEF Ahead, Renames, Migrating
    <3>7. PutAside'
      <4> SUFFICES ASSUME NEW i \in Ahead', Renames(i, "file")'
                   PROVE  /\ \A j \in 1..i - 1 : todo'[j].to # "lastGood"
                          /\ PutBefore("migrations", dir.file, i)'
        BY <1>4 DEF PutAside
      <4>1. i = k + 1
        BY <3>6
      <4>2. \A j \in 1..i - 1 : todo'[j].to # "lastGood"
        <5> SUFFICES ASSUME NEW j \in 1..i - 1 PROVE todo'[j].to # "lastGood"
          OBVIOUS
        <5>1. DOMAIN todo' = 1..Len(todo')
          BY <3>3
        <5>2. j \in DOMAIN todo' /\ ~(j > k + 2)
          BY <4>1, <5>1 DEF Ahead
        <5> QED BY <3>2, <5>2 DEF Migrating
      <4>3. CASE k = 0
        <5>1. dir.file \in dir.migrations
          BY <3>2, <4>3 DEF Migrating
        <5> QED BY <1>1, <4>2, <5>1 DEF PutBefore
      <4>4. CASE k = 2
        <5>1. 1 \in 1..i - 1 /\ todo'[1].step = "rename" /\ todo'[1].to = "migrations" /\ todo'[1].doc = dir.file
          BY <3>2, <4>1, <4>4 DEF Migrating
        <5> QED BY <1>1, <4>2, <5>1 DEF PutBefore
      <4> QED BY <3>2, <4>3, <4>4
    <3>8. k + 1 \in Ahead' /\ Renames(k + 1, "file")'
      BY <3>2 DEF Ahead, Renames, Migrating
    <3>9. CopyOfFile'
      <4> SUFFICES ASSUME NEW i \in Ahead', todo'[i].to = "lastGood"
                   PROVE  \A j \in Ahead' : Renames(j, "file")' => todo'[i].doc = todo'[j].doc
        BY <1>4, <3>8 DEF CopyOfFile
      <4> QED BY <3>2 DEF Ahead, Renames, Migrating
    <3>10. StorageTypeOK'
      BY <1>1, <1>4, <2>1, <2>2, <3>3 DEF StorageInv, StorageTypeOK, Phases
    <3>11. NothingBad'
      <4>1. \A i \in DOMAIN todo' : todo'[i].to = "lastGood" => todo'[i].doc # Bad
        <5>1. m # Bad
          BY <2>2, StorageAssumption DEF Doc
        <5> QED BY <3>2, <5>1 DEF Migrating
      <4> QED BY <1>1, <1>4, <2>2, <4>1 DEF StorageInv, NothingBad, Ahead
    <3>12. CopyKnown'
      <4>1. Copies(m)'
        <5>1. m # Missing
          BY <2>2, StorageAssumption DEF Doc
        <5> QED BY <1>1, <3>2, <5>1 DEF Copies, Ahead, Renames, Migrating
      <4>2. \A i \in Ahead' : Renames(i, "file")' => todo'[i].doc = m
        BY <3>2 DEF Ahead, Renames, Migrating
      <4>3. \A i \in Ahead' : Renames(i, "file")' => Copies(todo[i].doc)'
        BY <4>1, <4>2 DEF Copies
      <4> QED BY <1>1, <1>4, <3>8, <4>3 DEF CopyKnown
    <3> QED BY <2>3, <3>4, <3>5, <3>7, <3>9, <3>10, <3>11, <3>12 DEF StorageInv
  <2> QED BY <2>4, <2>5
<1> QED BY <1>2, <1>3, <1>4 DEF Load

-----------------------------------------------------------------------------
(* Steps of the file system *)

\* The calls that are left after the first n
Left(n) ==
    /\ todo' \in Seq(Call)
    /\ \A i \in Ahead' : i \in Nat /\ i >= 1 /\ i + n \in Ahead /\ todo'[i] = todo[i + n]
    /\ \A i \in Ahead : i \in Nat /\ i >= 1 /\ (i > n => i - n \in Ahead' /\ todo'[i - n] = todo[i])

LEMMA TailLeft ==
  ASSUME StorageInv, todo # <<>>, todo' = Tail(todo)
  PROVE  Left(1) /\ 1 \in Ahead /\ Next1 = todo[1] /\ Next1 \in Call
<1>1. todo \in Seq(Call)
  BY DEF StorageInv, StorageTypeOK
<1>2. /\ Len(todo) \in Nat /\ Len(todo) >= 1 /\ DOMAIN todo = 1..Len(todo)
      /\ Head(todo) = todo[1] /\ \A i \in 1..Len(todo) : todo[i] \in Call
      /\ todo' \in Seq(Call) /\ DOMAIN todo' = 1..Len(todo) - 1
      /\ \A i \in 1..Len(todo) - 1 : todo'[i] = todo[i + 1]
  BY <1>1, SeqFacts
<1>3. \A i \in 1..Len(todo) : i > 1 => i - 1 \in 1..Len(todo) - 1 /\ todo'[i - 1] = todo[i]
  BY <1>2
<1>4. \A i \in 1..Len(todo) - 1 : i \in Nat /\ i >= 1 /\ i + 1 \in 1..Len(todo)
  BY <1>2
<1> QED BY <1>2, <1>3, <1>4 DEF Left, Ahead, Next1

\* What is left of a row of calls is a row of calls.
LEMMA LeftPaired ==
  ASSUME StorageInv, todo # <<>>, NEW n \in {1, 2}, Left(n),
         phase' = phase \/ (phase = "constructing" /\ phase' = "running"),
         accepted \subseteq accepted' \/ \A i \in Ahead : i > n => todo[i].to # "file"
  PROVE  CallsPaired' /\ FileOnce'
<1>1. /\ phase \in {"loading", "constructing", "running", "closing", "recovering"}
      /\ \A i \in Ahead : (todo[i].step = "copy" => todo[i].to \in Places) /\ (phase = "constructing" => todo[i].to = "file")
      /\ \A i \in Ahead : todo[i].step = "rename" =>
           i + 1 \in Ahead /\ todo[i + 1] = [step |-> "sync", to |-> todo[i].to, doc |-> todo[i].doc]
  BY DEF StorageInv, CallsPaired
<1>2. ASSUME NEW i \in Ahead', todo'[i].step = "rename"
      PROVE  i + 1 \in Ahead' /\ todo'[i + 1] = [step |-> "sync", to |-> todo'[i].to, doc |-> todo'[i].doc]
  <2>1. i + n \in Ahead /\ todo'[i] = todo[i + n] /\ i \in Nat /\ i >= 1
    BY DEF Left
  <2>2. (i + n) + 1 \in Ahead /\ todo[(i + n) + 1] = [step |-> "sync", to |-> todo'[i].to, doc |-> todo'[i].doc]
    BY <1>1, <1>2, <2>1
  <2>3. (i + n) + 1 > n /\ ((i + n) + 1) - n = i + 1
    BY <2>1
  <2>4. ((i + n) + 1) - n \in Ahead' /\ todo'[((i + n) + 1) - n] = todo[(i + n) + 1]
    BY <2>2, <2>3 DEF Left
  <2> QED BY <2>2, <2>3, <2>4
<1>3. CallsPaired'
  <2>1. \A i \in Ahead' : (todo'[i].step = "copy" => todo'[i].to \in Places) /\ (phase' = "constructing" => todo'[i].to = "file")
    BY <1>1 DEF Left
  <2> QED BY <1>1, <1>2, <2>1 DEF CallsPaired
<1>4. ASSUME NEW i \in Ahead', todo'[i].to = "file"
      PROVE  /\ todo'[i].doc \in accepted' \cap Doc /\ todo'[i].step # "copy"
             /\ \A j \in Ahead' : j > i /\ todo'[j].to = "file" => todo'[i].step = "rename" /\ j = i + 1
  <2>1. i + n \in Ahead /\ todo'[i] = todo[i + n] /\ i \in Nat /\ i + n > n
    BY DEF Left
  <2>2. accepted \subseteq accepted'
    BY <1>4, <2>1
  <2>3. /\ todo[i + n].doc \in accepted \cap Doc /\ todo[i + n].step # "copy"
        /\ \A j \in Ahead : j > i + n /\ todo[j].to = "file" => todo[i + n].step = "rename" /\ j = (i + n) + 1
    BY <1>4, <2>1 DEF StorageInv, FileOnce
  <2>4. ASSUME NEW j \in Ahead', j > i, todo'[j].to = "file" PROVE todo'[i].step = "rename" /\ j = i + 1
    <3>1. j + n \in Ahead /\ todo'[j] = todo[j + n] /\ j \in Nat /\ j + n > i + n
      BY <2>1, <2>4 DEF Left
    <3>2. todo[i + n].step = "rename" /\ j + n = (i + n) + 1
      BY <2>3, <2>4, <3>1
    <3> QED BY <2>1, <3>1, <3>2
  <2> QED BY <2>1, <2>2, <2>3, <2>4
<1> QED BY <1>3, <1>4 DEF FileOnce

\* A call that leaves the file alone
LEMMA LeftAside ==
  ASSUME StorageInv, todo # <<>>, Left(1), 1 \in Ahead, ~Renames(1, "file"),
         phase' = phase \/ (phase = "constructing" /\ phase' = "running"),
         dir'.file = dir.file, todo[1].to # "lastGood" => dir'.lastGood = dir.lastGood,
         \A place \in Places : /\ dir[place] \subseteq dir'[place]
                               /\ todo[1].step # "sync" /\ todo[1].to = place => todo[1].doc \in dir'[place]
  PROVE  PutAside' /\ CopyOfFile'
<1>1. PutAside'
  <2> SUFFICES ASSUME NEW i \in Ahead', Renames(i, "file")'
               PROVE  /\ \A j \in 1..i - 1 : todo'[j].to # "lastGood"
                      /\ phase' = "loading" => PutBefore("migrations", dir.file, i)'
                      /\ phase' = "recovering" =>
                           /\ dir'.file # Missing => PutBefore("broken", dir.file, i)'
                           /\ dir'.lastGood # Missing => PutBefore("archived", dir.lastGood, i)'
    BY DEF PutAside
  <2>1. i + 1 \in Ahead /\ Renames(i + 1, "file") /\ i \in Nat /\ i >= 1
    BY DEF Left, Renames
  <2>2. /\ \A j \in 1..i : todo[j].to # "lastGood"
        /\ phase = "loading" => PutBefore("migrations", dir.file, i + 1)
        /\ phase = "recovering" =>
             /\ dir.file # Missing => PutBefore("broken", dir.file, i + 1)
             /\ dir.lastGood # Missing => PutBefore("archived", dir.lastGood, i + 1)
    BY <2>1 DEF StorageInv, PutAside
  <2>3. ASSUME NEW j \in 1..i PROVE j \in Ahead
    BY <2>1 DEF StorageInv, StorageTypeOK, Ahead
  <2>4. \A j \in 1..i - 1 : todo'[j] = todo[j + 1] /\ j + 1 \in 1..i
    <3> SUFFICES ASSUME NEW j \in 1..i - 1 PROVE todo'[j] = todo[j + 1] /\ j + 1 \in 1..i
      OBVIOUS
    <3>1. j + 1 \in 1..i /\ j + 1 > 1 /\ (j + 1) - 1 = j
      BY <2>1
    <3>2. j + 1 \in Ahead
      BY <2>3, <3>1
    <3> QED BY <3>1, <3>2 DEF Left
  <2>5. \A j \in 1..i - 1 : todo'[j].to # "lastGood"
    BY <2>2, <2>4
  <2>6. dir'.lastGood = dir.lastGood
    BY <2>1, <2>2
  <2>7. ASSUME NEW place \in Places, NEW c, PutBefore(place, c, i + 1)
        PROVE  c \in dir'[place] \/ \E j \in 1..i - 1 : todo'[j].to = place /\ todo'[j].doc = c /\ todo'[j].step # "sync"
    <3>1. CASE c \in dir[place]
      BY <3>1
    <3>2. CASE \E j \in 1..i : todo[j].to = place /\ todo[j].doc = c /\ todo[j].step # "sync"
      <4>1. PICK j \in 1..i : todo[j].to = place /\ todo[j].doc = c /\ todo[j].step # "sync"
        BY <3>2
      <4>2. CASE j = 1
        BY <4>1, <4>2
      <4>3. CASE j # 1
        <5>1. j - 1 \in 1..i - 1 /\ (j - 1) + 1 = j
          BY <2>1, <4>3
        <5>2. todo'[j - 1] = todo[j]
          BY <2>4, <5>1
        <5> QED BY <4>1, <5>1, <5>2
      <4> QED BY <4>2, <4>3
    <3>3. (i + 1) - 1 = i
      BY <2>1
    <3> QED BY <2>7, <3>1, <3>2, <3>3 DEF PutBefore
  <2>8. \A place \in Places, c \in Content : PutBefore(place, c, i + 1) =>
          c \in dir'[place] \/ \E j \in 1..i - 1 : todo'[j].to = place /\ todo'[j].doc = c /\ todo'[j].step # "sync"
    BY <2>7
  <2>9. phase' = "loading" => PutBefore("migrations", dir.file, i)'
    BY <2>2, <2>7 DEF PutBefore, Places
  <2>10. phase' = "recovering" /\ dir'.file # Missing => PutBefore("broken", dir.file, i)'
    BY <2>2, <2>7 DEF PutBefore, Places
  <2>11. phase' = "recovering" /\ dir'.lastGood # Missing => PutBefore("archived", dir.lastGood, i)'
    BY <2>2, <2>6, <2>7 DEF PutBefore, Places
  <2> QED BY <2>5, <2>9, <2>10, <2>11
<1>2. CopyOfFile'
  <2> SUFFICES ASSUME NEW i \in Ahead', todo'[i].to = "lastGood"
               PROVE  /\ phase' \in {"loading", "running", "closing"}
                      /\ \A j \in Ahead' : Renames(j, "file")' => todo'[i].doc = todo'[j].doc
                      /\ (\A j \in Ahead' : ~Renames(j, "file")') => todo'[i].doc = dir'.file
                      /\ phase' # "loading" => \A j \in Ahead' : todo'[j].to = "lastGood"
    BY DEF CopyOfFile
  <2>1. i + 1 \in Ahead /\ todo'[i] = todo[i + 1]
    BY DEF Left
  <2>2. /\ phase \in {"loading", "running", "closing"}
        /\ \A j \in Ahead : Renames(j, "file") => todo[i + 1].doc = todo[j].doc
        /\ (\A j \in Ahead : ~Renames(j, "file")) => todo[i + 1].doc = dir.file
        /\ phase # "loading" => \A j \in Ahead : todo[j].to = "lastGood"
    BY <2>1 DEF StorageInv, CopyOfFile
  <2>3. phase' = phase
    BY <2>2
  <2>4. \A j \in Ahead' : Renames(j, "file")' => todo'[i].doc = todo'[j].doc
    BY <2>1, <2>2 DEF Left, Renames
  <2>5. phase' # "loading" => \A j \in Ahead' : todo'[j].to = "lastGood"
    BY <2>2, <2>3 DEF Left
  <2>6. ASSUME \A j \in Ahead' : ~Renames(j, "file")', NEW j \in Ahead, Renames(j, "file") PROVE FALSE
    <3>1. j # 1 /\ j \in Nat /\ j >= 1
      BY <2>6 DEF Left
    <3>2. j > 1
      BY <3>1
    <3>3. j - 1 \in Ahead' /\ todo'[j - 1] = todo[j]
      BY <3>2 DEF Left
    <3> QED BY <2>6, <3>3 DEF Renames
  <2> QED BY <2>1, <2>2, <2>3, <2>4, <2>5, <2>6
<1> QED BY <1>1, <1>2

\* The file is written once, so after its rename no other is left.
LEMMA FileLast ==
  ASSUME StorageInv, todo # <<>>, Left(1), 1 \in Ahead, todo[1].to = "file"
  PROVE  /\ \A i \in Ahead' : ~Renames(i, "file")'
         /\ todo[1].step # "rename" => \A i \in Ahead : i > 1 => todo[i].to # "file"
<1>1. \A j \in Ahead : j > 1 /\ todo[j].to = "file" => todo[1].step = "rename" /\ j = 1 + 1
  BY DEF StorageInv, FileOnce
<1>2. ASSUME NEW i \in Ahead', Renames(i, "file")' PROVE FALSE
  <2>1. i + 1 \in Ahead /\ todo'[i] = todo[i + 1] /\ i \in Nat /\ i >= 1
    BY DEF Left
  <2>2. i + 1 > 1 /\ todo[i + 1].to = "file" /\ todo[i + 1].step = "rename"
    BY <1>2, <2>1 DEF Renames
  <2>3. todo[1].step = "rename" /\ i + 1 = 1 + 1
    BY <1>1, <2>1, <2>2
  <2>4. todo[1 + 1].step = "sync"
    <3>1. todo[1 + 1] = [step |-> "sync", to |-> todo[1].to, doc |-> todo[1].doc]
      BY <2>3 DEF StorageInv, CallsPaired
    <3> QED BY <3>1
  <2> QED BY <2>2, <2>3, <2>4
<1> QED BY <1>1, <1>2

\* What a rename or a copy does to the directory
LEMMA PlacedFacts ==
  ASSUME StorageInv, todo # <<>>, 1 \in Ahead, Next1 = todo[1], Next1 \in Call, Next1.step # "sync", dir' = Placed(Next1)
  PROVE  /\ dir' \in Directory
         /\ Next1.to # "file" => dir'.file = dir.file /\ dir'.gone = dir.gone
         /\ Next1.to = "file" => dir'.file = Next1.doc /\ dir'.gone = dir.gone \cup Gone /\ Renames(1, "file")
         /\ Next1.to # "lastGood" => dir'.lastGood = dir.lastGood
         /\ Next1.to = "lastGood" => dir'.lastGood = Next1.doc /\ Renames(1, "lastGood")
         /\ \A place \in Places : /\ dir[place] \subseteq dir'[place]
                                  /\ Next1.to = place => Next1.doc \in dir'[place]
<1>1. dir \in Directory /\ Next1.doc \in Content /\ Next1.step \in {"rename", "sync", "copy"} /\ Next1.to \in Places \cup {"file", "lastGood"}
  BY DEF StorageInv, StorageTypeOK, Call
<1>2. Next1.step = "copy" => Next1.to \in Places
  BY DEF StorageInv, CallsPaired
<1>3. CASE Next1.to = "file"
  <2>1. Renames(1, "file")
    BY <1>1, <1>2, <1>3 DEF Renames, Places
  <2>2. dir' = [dir EXCEPT !.file = Next1.doc, !.gone = @ \cup Gone]
    BY <1>3 DEF Placed
  <2>3. Gone \subseteq Places \X Content
    <3>1. phase = "loading" => dir.file \in Content
      <4>1. phase = "loading" => PutBefore("migrations", dir.file, 1)
        BY <2>1 DEF StorageInv, PutAside
      <4>2. PutBefore("migrations", dir.file, 1) => dir.file \in dir.migrations
        BY DEF PutBefore
      <4> QED BY <1>1, <4>1, <4>2 DEF Directory
    <3>2. dir.file \in Content \cup {Missing} /\ dir.lastGood \in Content \cup {Missing}
      BY <1>1 DEF Directory, File
    <3> QED BY <3>1, <3>2 DEF Gone, Places
  <2>4. dir' \in Directory /\ dir'.file = Next1.doc /\ dir'.gone = dir.gone \cup Gone /\ dir'.lastGood = dir.lastGood
        /\ dir'.migrations = dir.migrations /\ dir'.broken = dir.broken /\ dir'.archived = dir.archived
    BY <1>1, <2>2, <2>3 DEF Directory, File
  <2> QED BY <1>3, <2>1, <2>4 DEF Places
<1>4. CASE Next1.to = "lastGood"
  <2>1. Renames(1, "lastGood")
    BY <1>1, <1>2, <1>4 DEF Renames, Places
  <2>2. dir' = [dir EXCEPT !.lastGood = Next1.doc]
    BY <1>4 DEF Placed
  <2>4. dir' \in Directory /\ dir'.file = dir.file /\ dir'.gone = dir.gone /\ dir'.lastGood = Next1.doc
        /\ dir'.migrations = dir.migrations /\ dir'.broken = dir.broken /\ dir'.archived = dir.archived
    BY <1>1, <2>2 DEF Directory, File
  <2> QED BY <1>4, <2>1, <2>4 DEF Places
<1>5. CASE Next1.to \in Places
  <2>1. dir' = [dir EXCEPT ![Next1.to] = @ \cup {Next1.doc}] /\ Next1.to # "file" /\ Next1.to # "lastGood"
    BY <1>5 DEF Placed, Places
  <2>2. CASE Next1.to = "migrations"
    BY <1>1, <2>1, <2>2 DEF Directory, Places
  <2>3. CASE Next1.to = "broken"
    BY <1>1, <2>1, <2>3 DEF Directory, Places
  <2>4. CASE Next1.to = "archived"
    BY <1>1, <2>1, <2>4 DEF Directory, Places
  <2> QED BY <1>5, <2>2, <2>3, <2>4 DEF Places
<1> QED BY <1>1, <1>3, <1>4, <1>5

LEMMA PlacedStep ==
  ASSUME StorageInv, todo # <<>>, Next1.step # "sync", dir' = Placed(Next1), since' = since \cup {dir'}, todo' = Tail(todo),
         closed' = (IF phase = "closing" /\ Next1.to = "file" THEN closed \cup {Next1.doc} ELSE closed),
         UNCHANGED <<phase, pending, accepted, lost, blind>>, ~missed' => ~missed \/ Next1.to = "lastGood"
  PROVE  /\ dir' \in Directory /\ todo' \in Seq(Call) /\ CallsPaired' /\ FileOnce' /\ Complete' /\ PutAside' /\ Kept'
         /\ NothingBad' /\ CopyOfFile' /\ CopyKnown' /\ ClosedInOrder'
<1>1. Left(1) /\ 1 \in Ahead /\ Next1 = todo[1] /\ Next1 \in Call
  BY TailLeft
<1>2. /\ dir' \in Directory
      /\ Next1.to # "file" => dir'.file = dir.file /\ dir'.gone = dir.gone
      /\ Next1.to = "file" => dir'.file = Next1.doc /\ dir'.gone = dir.gone \cup Gone /\ Renames(1, "file")
      /\ Next1.to # "lastGood" => dir'.lastGood = dir.lastGood
      /\ Next1.to = "lastGood" => dir'.lastGood = Next1.doc /\ Renames(1, "lastGood")
      /\ \A place \in Places : /\ dir[place] \subseteq dir'[place]
                               /\ Next1.to = place => Next1.doc \in dir'[place]
  BY <1>1, PlacedFacts
<1>3. CallsPaired' /\ FileOnce'
  BY <1>1, LeftPaired
<1>4. todo' \in Seq(Call)
  BY <1>1 DEF Left
<1>5. Next1.to = "file" => Next1.doc \in accepted \cap Doc /\ \A i \in Ahead' : ~Renames(i, "file")'
  <2>1. Next1.to = "file" => \A i \in Ahead' : ~Renames(i, "file")'
    BY <1>1, FileLast
  <2> QED BY <1>1, <2>1 DEF StorageInv, FileOnce
<1>6. PutAside' /\ CopyOfFile'
  <2>1. CASE Next1.to # "file"
    <3>1. ~Renames(1, "file")
      BY <1>1, <2>1 DEF Renames
    <3> QED BY <1>1, <1>2, <2>1, <3>1, LeftAside
  <2>2. CASE Next1.to = "file"
    <3>1. PutAside'
      BY <1>5, <2>2 DEF PutAside
    <3>2. ASSUME NEW i \in Ahead', todo'[i].to = "lastGood"
          PROVE  phase' = "loading" /\ todo'[i].doc = dir'.file
      <4>1. i + 1 \in Ahead /\ todo'[i] = todo[i + 1]
        BY <1>1 DEF Left
      <4>2. /\ phase \in {"loading", "running", "closing"}
            /\ todo[i + 1].doc = todo[1].doc
            /\ phase # "loading" => todo[1].to = "lastGood"
        BY <1>1, <1>2, <2>2, <3>2, <4>1 DEF StorageInv, CopyOfFile
      <4> QED BY <1>1, <1>2, <2>2, <4>1, <4>2
    <3>3. CopyOfFile'
      BY <1>5, <2>2, <3>2 DEF CopyOfFile
    <3> QED BY <3>1, <3>3
  <2> QED BY <2>1, <2>2
<1>7. Complete'
  BY <1>2, <1>5 DEF StorageInv, Complete
<1>8. Kept'
  <2>1. dir \in Directory /\ dir \in since
    BY DEF StorageInv, StorageTypeOK, Complete
  <2>2. Next1.to = "file" => \A x \in Gone : x[2] \in dir'[x[1]]
    <3> SUFFICES ASSUME Next1.to = "file", NEW x \in Gone PROVE x[2] \in dir'[x[1]]
      OBVIOUS
    <3>1. /\ phase = "loading" => PutBefore("migrations", dir.file, 1)
          /\ phase = "recovering" =>
               /\ dir.file # Missing => PutBefore("broken", dir.file, 1)
               /\ dir.lastGood # Missing => PutBefore("archived", dir.lastGood, 1)
      BY <1>1, <1>2 DEF StorageInv, PutAside
    <3>2. \A place, c : PutBefore(place, c, 1) => c \in dir[place]
      BY DEF PutBefore
    <3>3. CASE phase = "loading"
      <4>1. x = <<"migrations", dir.file>> /\ dir.file \in dir["migrations"]
        BY <3>1, <3>2, <3>3 DEF Gone
      <4> QED BY <1>2, <4>1 DEF Places
    <3>4. CASE phase = "recovering"
      <4>1. CASE x = <<"broken", dir.file>> /\ dir.file # Missing
        <5>1. dir.file \in dir["broken"]
          BY <3>1, <3>2, <3>4, <4>1
        <5> QED BY <1>2, <4>1, <5>1 DEF Places
      <4>2. CASE x = <<"archived", dir.lastGood>> /\ dir.lastGood # Missing
        <5>1. dir.lastGood \in dir["archived"]
          BY <3>1, <3>2, <3>4, <4>2
        <5> QED BY <1>2, <4>2, <5>1 DEF Places
      <4> QED BY <3>4, <4>1, <4>2 DEF Gone
    <3> QED BY <3>3, <3>4 DEF Gone
  <2>3. \A x \in dir'.gone : x \in dir.gone \/ x[2] \in dir'[x[1]]
    BY <1>2, <2>2
  <2>4. dir.migrations \subseteq dir'.migrations /\ dir.broken \subseteq dir'.broken /\ dir.archived \subseteq dir'.archived
    BY <1>2 DEF Places
  <2>5. \A x \in dir'.gone : x[2] \in dir'[x[1]] \/ Taken(x)
    BY <1>2, <2>1, <2>3, <2>4, KeptOn
  <2> QED BY <2>5 DEF StorageInv, Kept, Taken
<1>9. NothingBad'
  <2>1. \A i \in Ahead' : todo'[i].to = "lastGood" => \E j \in Ahead : todo[j].to = "lastGood" /\ todo[j].doc = todo'[i].doc
    <3> SUFFICES ASSUME NEW i \in Ahead', todo'[i].to = "lastGood"
                 PROVE  \E j \in Ahead : todo[j].to = "lastGood" /\ todo[j].doc = todo'[i].doc
      OBVIOUS
    <3>1. i + 1 \in Ahead /\ todo'[i] = todo[i + 1]
      BY <1>1 DEF Left
    <3> QED BY <3>1
  <2>2. Next1.to = "file" => dir'.file # Bad
    BY <1>2, <1>5, StorageAssumption DEF Doc
  <2>3. Next1.to = "lastGood" /\ ~blind => dir'.lastGood # Bad
    BY <1>1, <1>2 DEF StorageInv, NothingBad
  <2>4. ~blind => dir.lastGood # Bad /\ (phase \in {"loading", "constructing", "running", "closing"} => dir.file # Bad)
    BY DEF StorageInv, NothingBad, Complete
  <2>5. ~blind => dir'.lastGood # Bad /\ (phase \in {"loading", "constructing", "running", "closing"} => dir'.file # Bad)
    BY <1>2, <2>2, <2>3, <2>4
  <2>6. ~blind => \A i \in Ahead' : todo'[i].to = "lastGood" => todo'[i].doc # Bad
    BY <2>1 DEF StorageInv, NothingBad
  <2>7. ~blind => \A d \in since : d.lastGood # Bad
    BY DEF StorageInv, NothingBad
  <2> QED BY <2>5, <2>6, <2>7 DEF NothingBad
<1>10. (closed' # {} => phase = "closing") /\ (closed' # closed => Next1.to = "file") /\ closed \subseteq closed'
  BY DEF StorageInv, ClosedInOrder, CallsPaired
<1>11. CopyKnown'
  <2> SUFFICES ASSUME ~missed'
               PROVE  /\ phase = "loading" =>
                           /\ \A i \in Ahead' : Renames(i, "file")' => Copies(todo[i].doc)'
                           /\ dir'.file # Missing /\ (\A i \in Ahead' : ~Renames(i, "file")') => Copies(dir.file)'
                      /\ phase = "running" /\ ~pending /\ dir'.file \in Doc =>
                           Copies(dir.file)' \/ (todo' # <<>> /\ todo'[1].step = "sync" /\ todo'[1].to = "file")
                      /\ closed' # {} /\ closed' \subseteq Doc => CopySince'
    BY DEF CopyKnown
  <2>1. CASE Next1.to = "lastGood"
    <3>1. Renames(1, "lastGood") /\ dir'.lastGood = todo[1].doc /\ dir'.file = dir.file
      BY <1>1, <1>2, <2>1
    <3>2. \A i \in Ahead' : ~Renames(i, "file")'
      <4> SUFFICES ASSUME NEW i \in Ahead', Renames(i, "file")' PROVE FALSE
        OBVIOUS
      <4>1. i + 1 \in Ahead /\ Renames(i + 1, "file") /\ i \in Nat /\ i >= 1
        BY <1>1 DEF Left, Renames
      <4>2. \A j \in 1..(i + 1) - 1 : todo[j].to # "lastGood"
        BY <4>1 DEF StorageInv, PutAside
      <4>3. 1 \in 1..(i + 1) - 1
        BY <4>1
      <4> QED BY <3>1, <4>2, <4>3 DEF Renames
    <3>3. \A i \in Ahead : ~Renames(i, "file")
      <4> SUFFICES ASSUME NEW i \in Ahead, Renames(i, "file") PROVE FALSE
        OBVIOUS
      <4>1. i \in Nat /\ i >= 1 /\ i # 1
        BY <1>1, <3>1 DEF Left, Renames
      <4>2. i > 1
        BY <4>1
      <4>3. i - 1 \in Ahead' /\ todo'[i - 1] = todo[i]
        BY <1>1, <4>2 DEF Left
      <4> QED BY <3>2, <4>3 DEF Renames
    <3>4. todo[1].doc = dir.file
      BY <1>1, <3>1, <3>3 DEF StorageInv, CopyOfFile, Renames
    <3>5. Copies(dir.file)'
      BY <3>1, <3>4 DEF Copies
    <3>6. closed' # {} => dir'.lastGood \in closed'
      BY <1>10, <3>1, <3>4 DEF StorageInv, ClosedInOrder
    <3> QED BY <3>2, <3>5, <3>6 DEF CopySince
  <2>2. CASE Next1.to # "lastGood"
    <3>1. ~missed /\ dir'.lastGood = dir.lastGood
      BY <1>2, <2>2
    <3>2. ASSUME NEW doc, Copies(doc)
          PROVE  dir'.lastGood = doc \/ \E i \in Ahead' : Renames(i, "lastGood")' /\ todo'[i].doc = doc
      <4>1. CASE dir.lastGood = doc BY <3>1, <4>1
      <4>2. CASE \E i \in Ahead : Renames(i, "lastGood") /\ todo[i].doc = doc
        <5>1. PICK i \in Ahead : Renames(i, "lastGood") /\ todo[i].doc = doc
          BY <4>2
        <5>2. i \in Nat /\ i >= 1 /\ i # 1
          BY <1>1, <2>2, <5>1 DEF Left, Renames
        <5>3. i > 1
          BY <5>2
        <5>4. i - 1 \in Ahead' /\ todo'[i - 1] = todo[i]
          BY <1>1, <5>3 DEF Left
        <5> QED BY <5>1, <5>4 DEF Renames
      <4> QED BY <3>2, <4>1, <4>2 DEF Copies
    <3>3. \A i \in Ahead' : Copies(todo'[i].doc) => Copies(todo[i].doc)'
      BY <3>2 DEF Copies
    <3>4. Copies(dir'.file) => Copies(dir.file)'
      BY <3>2 DEF Copies
    <3>5. phase = "loading" => \A i \in Ahead' : Renames(i, "file")' => Copies(todo'[i].doc)
      <4> SUFFICES ASSUME phase = "loading", NEW i \in Ahead', Renames(i, "file")' PROVE Copies(todo'[i].doc)
        OBVIOUS
      <4>1. i + 1 \in Ahead /\ todo'[i] = todo[i + 1]
        BY <1>1 DEF Left
      <4>2. Renames(i + 1, "file")
        BY <4>1 DEF Renames
      <4>3. Copies(todo[i + 1].doc)
        BY <3>1, <4>1, <4>2 DEF StorageInv, CopyKnown
      <4> QED BY <4>1, <4>3
    <3>6. phase = "loading" /\ dir'.file # Missing /\ (\A i \in Ahead' : ~Renames(i, "file")') => Copies(dir'.file)
      <4>1. CASE Next1.to = "file"
        BY <1>1, <1>2, <3>1, <4>1 DEF StorageInv, CopyKnown
      <4>2. CASE Next1.to # "file"
        <5>1. dir'.file = dir.file /\ ~Renames(1, "file")
          BY <1>1, <1>2, <4>2 DEF Renames
        <5>2. ASSUME \A i \in Ahead' : ~Renames(i, "file")', NEW i \in Ahead PROVE ~Renames(i, "file")
          <6>1. i \in Nat /\ i >= 1 /\ (i > 1 => i - 1 \in Ahead' /\ todo'[i - 1] = todo[i])
            BY <1>1 DEF Left
          <6>2. CASE i = 1 BY <5>1, <6>2
          <6>3. CASE i # 1
            <7>1. i > 1 BY <6>1, <6>3
            <7> QED BY <5>2, <6>1, <7>1 DEF Renames
          <6> QED BY <6>2, <6>3
        <5> QED BY <3>1, <5>1, <5>2 DEF StorageInv, CopyKnown
      <4> QED BY <4>1, <4>2
    <3>7. phase = "running" /\ ~pending /\ dir'.file \in Doc =>
            Copies(dir'.file) \/ (todo' # <<>> /\ todo'[1].step = "sync" /\ todo'[1].to = "file")
      <4>1. CASE Next1.to = "file"
        <5>1. 1 + 1 \in Ahead /\ todo[1 + 1] = [step |-> "sync", to |-> todo[1].to, doc |-> todo[1].doc]
          BY <1>1, <1>2, <4>1 DEF StorageInv, CallsPaired, Renames
        <5>2. todo[1 + 1].step = "sync" /\ todo[1 + 1].to = "file"
          BY <1>1, <4>1, <5>1
        <5>3. 1 + 1 > 1 /\ (1 + 1) - 1 = 1
          OBVIOUS
        <5>4. 1 \in Ahead' /\ todo'[1] = todo[1 + 1]
          BY <1>1, <5>1, <5>3 DEF Left
        <5>5. todo' # <<>>
          BY ONLY <5>4 DEF Ahead
        <5> QED BY <5>2, <5>4, <5>5
      <4>2. CASE Next1.to # "file"
        <5>1. dir'.file = dir.file
          BY <1>2, <4>2
        <5>2. phase = "running" /\ ~pending /\ dir.file \in Doc =>
                Copies(dir.file) \/ (todo # <<>> /\ todo[1].step = "sync" /\ todo[1].to = "file")
          BY <3>1 DEF StorageInv, CopyKnown
        <5> QED BY <1>1, <4>2, <5>1, <5>2
      <4> QED BY <4>1, <4>2
    <3>8. closed' # {} /\ closed' \subseteq Doc => CopySince'
      <4> SUFFICES ASSUME closed' # {}, closed' \subseteq Doc PROVE CopySince'
        OBVIOUS
      <4>1. closed # {} /\ closed \subseteq Doc
        BY <1>10 DEF StorageInv, ClosedInOrder
      <4>2. CASE dir.lastGood \in closed
        BY <1>10, <3>1, <4>2 DEF CopySince
      <4>3. CASE \E i \in Ahead : Renames(i, "lastGood")
        <5>1. PICK i \in Ahead : Renames(i, "lastGood")
          BY <4>3
        <5>2. i \in Nat /\ i >= 1 /\ i # 1
          BY <1>1, <2>2, <5>1 DEF Left, Renames
        <5>3. i > 1
          BY <5>2
        <5>4. i - 1 \in Ahead' /\ todo'[i - 1] = todo[i]
          BY <1>1, <5>3 DEF Left
        <5> QED BY <5>1, <5>4 DEF Renames, CopySince
      <4> QED BY <3>1, <4>1, <4>2, <4>3 DEF StorageInv, CopyKnown, CopySince
    <3> QED BY <3>3, <3>4, <3>5, <3>6, <3>7, <3>8
  <2> QED BY <2>1, <2>2
<1>12. ClosedInOrder'
  BY <1>2, <1>10 DEF StorageInv, ClosedInOrder
<1> QED BY <1>2, <1>3, <1>4, <1>6, <1>7, <1>8, <1>9, <1>11, <1>12

LEMMA RenamedStep == ASSUME StorageInv, Renamed PROVE StorageInv'
<1>1. /\ todo # <<>> /\ Next1.step = "rename" /\ dir' = Placed(Next1) /\ since' = since \cup {dir'} /\ todo' = Tail(todo)
      /\ closed' = (IF phase = "closing" /\ Next1.to = "file" THEN closed \cup {Next1.doc} ELSE closed)
      /\ UNCHANGED <<soft, phase, issue, pending, edits, faults, accepted, lost, blind>>
  BY DEF Renamed
<1>2. missed' \in BOOLEAN /\ (~missed' => ~missed \/ Next1.to = "lastGood")
  BY DEF Renamed, StorageInv, StorageTypeOK
<1>3. /\ dir' \in Directory /\ todo' \in Seq(Call) /\ CallsPaired' /\ FileOnce' /\ Complete' /\ PutAside' /\ Kept'
      /\ NothingBad' /\ CopyOfFile' /\ CopyKnown' /\ ClosedInOrder'
  BY <1>1, <1>2, PlacedStep
<1>4. StorageTypeOK'
  <2>1. 1 \in Ahead /\ Next1 \in Call
    BY <1>1, TailLeft
  <2>2. closed' \subseteq File
    BY <1>1, <2>1 DEF StorageInv, StorageTypeOK, Call, File
  <2> QED BY <1>1, <1>2, <1>3, <2>2 DEF StorageInv, StorageTypeOK
<1> QED BY <1>3, <1>4 DEF StorageInv

LEMMA CopiedStep == ASSUME StorageInv, Copied PROVE StorageInv'
<1>1. /\ todo # <<>> /\ Next1.step = "copy" /\ dir' = Placed(Next1) /\ since' = since \cup {dir'} /\ todo' = Tail(todo)
      /\ soft' = soft \cup {<<Next1.to, Next1.doc>>}
      /\ UNCHANGED <<phase, issue, pending, edits, faults, accepted, closed, lost, missed, blind>>
  BY DEF Copied
<1>5. Next1.to # "file"
  <2>1. 1 \in Ahead /\ Next1 = todo[1]
    BY <1>1, TailLeft
  <2> QED BY <1>1, <2>1 DEF StorageInv, CallsPaired, Places
<1>2. /\ dir' \in Directory /\ todo' \in Seq(Call) /\ CallsPaired' /\ FileOnce' /\ Complete' /\ PutAside' /\ Kept'
      /\ NothingBad' /\ CopyOfFile' /\ CopyKnown' /\ ClosedInOrder'
  BY <1>1, <1>5, PlacedStep
<1>3. soft' \subseteq Places \X Content
  <2>1. 1 \in Ahead /\ Next1 = todo[1] /\ Next1 \in Call
    BY <1>1, TailLeft
  <2>2. Next1.to \in Places /\ Next1.doc \in Content
    BY <1>1, <2>1 DEF StorageInv, CallsPaired, Call
  <2> QED BY <1>1, <2>2 DEF StorageInv, StorageTypeOK
<1>4. StorageTypeOK'
  BY <1>1, <1>2, <1>3 DEF StorageInv, StorageTypeOK
<1> QED BY <1>2, <1>4 DEF StorageInv

\* What the sync of a directory leaves known of the copy
LEMMA SyncKnown ==
  ASSUME StorageInv, todo # <<>>, Left(1), 1 \in Ahead, todo[1].step = "sync", ~(todo[1].to = "file" /\ phase = "running"),
         UNCHANGED <<dir, pending, closed, missed, phase>>
  PROVE  CopyKnown'
<1>2. ASSUME NEW doc, Copies(doc)
      PROVE  dir'.lastGood = doc \/ \E i \in Ahead' : Renames(i, "lastGood")' /\ todo'[i].doc = doc
  <2>1. CASE dir.lastGood = doc BY <2>1
  <2>2. CASE \E i \in Ahead : Renames(i, "lastGood") /\ todo[i].doc = doc
    <3>1. PICK i \in Ahead : Renames(i, "lastGood") /\ todo[i].doc = doc
      BY <2>2
    <3>2. i \in Nat /\ i >= 1 /\ i # 1
      BY <3>1 DEF Left, Renames
    <3>3. i > 1
      BY <3>2
    <3>4. i - 1 \in Ahead' /\ todo'[i - 1] = todo[i]
      BY <3>3 DEF Left
    <3> QED BY <3>1, <3>4 DEF Renames
  <2> QED BY <1>2, <2>1, <2>2 DEF Copies
<1>3. Copies(dir.file) => Copies(dir.file)'
  BY <1>2 DEF Copies
<1>4. ASSUME \A i \in Ahead' : ~Renames(i, "file")', NEW i \in Ahead PROVE ~Renames(i, "file")
  <2>1. i \in Nat /\ i >= 1 /\ (i > 1 => i - 1 \in Ahead' /\ todo'[i - 1] = todo[i])
    BY DEF Left
  <2>2. CASE i = 1 BY <2>2 DEF Renames
  <2>3. CASE i # 1
    <3>1. i > 1 BY <2>1, <2>3
    <3> QED BY <1>4, <2>1, <3>1 DEF Renames
  <2> QED BY <2>2, <2>3
<1> SUFFICES ASSUME ~missed
             PROVE  /\ phase = "loading" =>
                         /\ \A i \in Ahead' : Renames(i, "file")' => Copies(todo[i].doc)'
                         /\ dir'.file # Missing /\ (\A i \in Ahead' : ~Renames(i, "file")') => Copies(dir.file)'
                    /\ phase = "running" /\ ~pending /\ dir'.file \in Doc => Copies(dir.file)'
                    /\ closed # {} /\ closed \subseteq Doc => CopySince'
  BY DEF CopyKnown
<1>5. ASSUME phase = "loading", NEW i \in Ahead', Renames(i, "file")' PROVE Copies(todo[i].doc)'
  <2>1. i + 1 \in Ahead /\ todo'[i] = todo[i + 1]
    BY DEF Left
  <2>2. Renames(i + 1, "file")
    BY <1>5, <2>1 DEF Renames
  <2>3. Copies(todo'[i].doc)
    BY <1>5, <2>1, <2>2 DEF StorageInv, CopyKnown
  <2> QED BY <1>2, <2>3 DEF Copies
<1>6. phase = "loading" /\ dir.file # Missing /\ (\A i \in Ahead' : ~Renames(i, "file")') => Copies(dir.file)
  BY <1>4 DEF StorageInv, CopyKnown
<1>7. phase = "running" /\ ~pending /\ dir.file \in Doc => Copies(dir.file)
  BY DEF StorageInv, CopyKnown
<1>8. closed # {} /\ closed \subseteq Doc => CopySince'
  <2> SUFFICES ASSUME closed # {}, closed \subseteq Doc PROVE CopySince'
    OBVIOUS
  <2>1. CASE dir.lastGood \in closed
    BY <2>1 DEF CopySince
  <2>2. CASE \E i \in Ahead : Renames(i, "lastGood")
    <3>1. PICK i \in Ahead : Renames(i, "lastGood")
      BY <2>2
    <3>2. i \in Nat /\ i >= 1 /\ i # 1
      BY <3>1 DEF Left, Renames
    <3>3. i > 1
      BY <3>2
    <3>4. i - 1 \in Ahead' /\ todo'[i - 1] = todo[i]
      BY <3>3 DEF Left
    <3> QED BY <3>1, <3>4 DEF Renames, CopySince
  <2> QED BY <2>1, <2>2 DEF StorageInv, CopyKnown, CopySince
<1> QED BY <1>3, <1>5, <1>6, <1>7, <1>8

LEMMA SyncedStep == ASSUME StorageInv, NEW done \in BOOLEAN, NEW refreshes \in BOOLEAN, Synced(done, refreshes) PROVE StorageInv'
<1>1. /\ todo # <<>> /\ Next1.step = "sync"
      /\ UNCHANGED <<dir, soft, issue, edits, faults, closed, lost, missed, blind>>
  BY DEF Synced
<1>2. todo[1] = Next1 /\ Next1 \in Call /\ 1 \in Ahead /\ todo \in Seq(Call)
  <2>1. todo \in Seq(Call)
    BY DEF StorageInv, StorageTypeOK
  <2> QED BY <1>1, <2>1, SeqFacts DEF Ahead, Next1
<1>3. /\ phase \in {"loading", "constructing", "running", "closing", "recovering"}
      /\ phase = "constructing" => Next1.to = "file"
      /\ phase' = (IF phase = "constructing" THEN "running" ELSE phase)
      /\ closed # {} => phase = "closing"
  BY <1>1, <1>2 DEF Synced, StorageInv, CallsPaired, ClosedInOrder
<1>4. /\ since' \subseteq since /\ dir \in since' /\ dir \in since
      /\ accepted' \subseteq File
      /\ \A d \in since' : d.file \in accepted'
      /\ accepted' = accepted \/ Next1.to = "file"
  <2>1. dir \in since /\ dir.file \in File /\ accepted \subseteq File /\ \A d \in since : d.file \in accepted
    BY DEF StorageInv, Complete, StorageTypeOK, Directory
  <2>2. CASE done /\ Next1.to = "file"
    <3>1. since' = {dir} /\ accepted' = {dir.file}
      BY <2>2 DEF Synced
    <3> QED BY <2>1, <2>2, <3>1
  <2>3. CASE ~(done /\ Next1.to = "file")
    <3>1. accepted' = accepted /\ (since' = {dir} \/ since' = since)
      BY <2>3 DEF Synced
    <3> QED BY <2>1, <3>1
  <2> QED BY <2>2, <2>3
<1>5. Complete' /\ Kept' /\ ClosedInOrder'
  BY <1>1, <1>3, <1>4 DEF Complete, Kept, Taken, ClosedInOrder, StorageInv
<1>6. /\ todo' \in Seq(Call) /\ pending' \in BOOLEAN /\ CallsPaired' /\ FileOnce' /\ PutAside' /\ CopyOfFile' /\ CopyKnown'
      /\ ~blind => \A i \in Ahead' : todo'[i].to = "lastGood" => todo'[i].doc # Bad
  <2>1. CASE todo' = Tail(todo)
    <3>1. Left(1)
      BY <1>1, <2>1, TailLeft
    <3>2. CallsPaired' /\ FileOnce'
      <4>1. Next1.to = "file" => \A i \in Ahead : i > 1 => todo[i].to # "file"
        BY <1>1, <1>2, <3>1, FileLast
      <4>2. accepted \subseteq accepted' \/ \A i \in Ahead : i > 1 => todo[i].to # "file"
        BY <1>4, <4>1
      <4> QED BY <1>1, <1>3, <3>1, <4>2, LeftPaired
    <3>3. PutAside' /\ CopyOfFile'
      <4>1. ~Renames(1, "file")
        BY <1>1, <1>2 DEF Renames
      <4> QED BY <1>1, <1>2, <1>3, <3>1, <4>1, LeftAside
    <3>4. CopyKnown'
      <4>1. CASE Next1.to = "file" /\ phase \in {"running", "constructing", "closing"}
        <5>1. phase' \in {"running", "closing"} /\ (phase' = "closing" => phase = "closing")
          BY <1>3, <4>1
        <5>2. pending' = TRUE \/ (phase # "constructing" /\ refreshes)
          BY <4>1 DEF Synced, AfterPersist
        <5>3. ~missed /\ closed # {} /\ closed \subseteq Doc => CopySince'
          <6> SUFFICES ASSUME closed # {}, closed \subseteq Doc, ~missed PROVE CopySince'
            OBVIOUS
          <6>1. dir.lastGood \in closed \/ \E i \in Ahead : Renames(i, "lastGood")
            BY DEF StorageInv, CopyKnown, CopySince
          <6>2. ASSUME NEW i \in Ahead, Renames(i, "lastGood") PROVE FALSE
            BY <1>2, <1>3, <4>1, <6>2 DEF StorageInv, CopyOfFile, Renames
          <6> QED BY <1>1, <6>1, <6>2 DEF CopySince
        <5>4. CASE pending' = TRUE
          BY <1>1, <1>3, <5>1, <5>3, <5>4 DEF CopyKnown
        <5>5. CASE phase # "constructing" /\ refreshes
          <6>1. todo' = RefreshLastGood(dir.file)
            BY <4>1, <5>5 DEF Synced, AfterPersist
          <6>2. dir.file # Missing => Copies(dir.file)'
            BY <1>1, <5>1, <6>1, CopyAhead DEF StorageInv
          <6>3. dir.file \in Doc => dir.file # Missing
            BY StorageAssumption DEF Doc
          <6> QED BY <1>1, <1>3, <5>1, <5>3, <6>2, <6>3 DEF CopyKnown
        <5> QED BY <5>2, <5>4, <5>5
      <4>2. CASE ~(Next1.to = "file" /\ phase \in {"running", "constructing", "closing"})
        <5>1. UNCHANGED <<pending, phase>>
          BY <1>3, <4>2 DEF Synced
        <5> QED BY <1>1, <1>2, <3>1, <4>2, <5>1, SyncKnown
      <4> QED BY <4>1, <4>2
    <3>5. ~blind => \A i \in Ahead' : todo'[i].to = "lastGood" => todo'[i].doc # Bad
      BY <3>1 DEF Left, StorageInv, NothingBad
    <3>6. pending' \in BOOLEAN
      BY DEF Synced, AfterPersist, StorageInv, StorageTypeOK
    <3> QED BY <3>1, <3>2, <3>3, <3>4, <3>5, <3>6 DEF Left
  <2>2. CASE todo' # Tail(todo)
    <3>1. phase \in {"running", "closing"} /\ todo' = RefreshLastGood(dir.file) /\ pending' = FALSE
      BY <2>2 DEF Synced, AfterPersist
    <3>2. phase' = phase
      BY <1>3, <3>1
    <3>3. /\ todo' \in Seq(Call) /\ CallsPaired' /\ FileOnce' /\ PutAside' /\ CopyOfFile'
          /\ \A i \in Ahead' : todo'[i].to = "lastGood" /\ todo'[i].doc = dir.file
          /\ dir.file # Missing => Copies(dir.file)'
      BY <1>1, <3>1, <3>2, CopyAhead DEF StorageInv
    <3>4. dir.file \in Doc => dir.file # Missing
      BY StorageAssumption DEF Doc
    <3>7. closed # {} /\ closed \subseteq Doc => CopySince'
      <4>1. closed # {} => dir.file \in closed
        BY <1>3 DEF StorageInv, ClosedInOrder
      <4> QED BY <1>1, <3>3, <3>4, <4>1 DEF Copies, CopySince
    <3>5. CopyKnown'
      BY <1>1, <1>3, <3>1, <3>2, <3>3, <3>4, <3>7 DEF CopyKnown
    <3>6. ~blind => \A i \in Ahead' : todo'[i].doc # Bad
      BY <3>1, <3>3 DEF StorageInv, NothingBad
    <3> QED BY <3>1, <3>3, <3>5, <3>6
  <2> QED BY <2>1, <2>2
<1>7. NothingBad'
  <2>1. ~blind => (phase \in {"loading", "constructing", "running", "closing"} => dir.file # Bad) /\ \A d \in since : d.lastGood # Bad
    BY DEF StorageInv, NothingBad
  <2> QED BY <1>1, <1>3, <1>4, <1>6, <2>1 DEF NothingBad
<1>8. StorageTypeOK'
  BY <1>1, <1>3, <1>4, <1>6 DEF StorageInv, StorageTypeOK, Phases
<1> QED BY <1>5, <1>6, <1>7, <1>8 DEF StorageInv

LEMMA FailsStep == ASSUME StorageInv, Fails PROVE StorageInv'
<1>1. /\ todo # <<>> /\ Next1.step # "sync" /\ faults' \in 0..MaxFaults
      /\ UNCHANGED <<dir, since, soft, pending, edits, accepted, closed, lost, blind>>
  BY StorageAssumption DEF Fails, Fault, StorageInv, StorageTypeOK
<1>2. todo[1] = Next1 /\ Next1 \in Call /\ 1 \in Ahead /\ todo \in Seq(Call)
  <2>1. todo \in Seq(Call)
    BY DEF StorageInv, StorageTypeOK
  <2> QED BY <1>1, <2>1, SeqFacts DEF Ahead, Next1
<1>3. /\ phase \in {"loading", "constructing", "running", "closing", "recovering"} /\ (closed # {} => phase = "closing")
  BY <1>1 DEF StorageInv, CallsPaired, ClosedInOrder
<1>4. missed' \in BOOLEAN /\ (~missed' => ~missed /\ Next1.to # "lastGood")
  BY DEF Fails, StorageInv, StorageTypeOK
<1>5. Complete' /\ Kept'
  BY <1>1 DEF StorageInv, Complete, Kept, Taken
<1>6. CASE Next1.to = "lastGood"
  <2>1. todo' = Tail(Tail(todo)) /\ UNCHANGED <<phase, issue>>
    BY <1>6 DEF Fails
  <2>2. Renames(1, "lastGood")
    BY <1>1, <1>2, <1>6 DEF StorageInv, CallsPaired, Renames, Call, Places
  <2>3. Left(2)
    <3>1. 1 + 1 \in Ahead
      BY <1>2, <2>2 DEF StorageInv, CallsPaired, Renames
    <3>2. /\ Len(todo) \in Nat /\ DOMAIN todo = 1..Len(todo)
          /\ Tail(todo) \in Seq(Call) /\ Len(Tail(todo)) = Len(todo) - 1
          /\ \A i \in 1..Len(todo) - 1 : Tail(todo)[i] = todo[i + 1]
      BY <1>1, <1>2, SeqFacts
    <3>3. Len(todo) >= 2
      BY <3>1, <3>2 DEF Ahead
    <3>4. Tail(todo) # <<>>
      <4>1. Tail(todo) \in Seq(Call) /\ Len(Tail(todo)) \in Nat /\ Len(Tail(todo)) > 0
        BY <3>2, <3>3
      <4> QED BY <4>1, SomeCalls
    <3>5. /\ todo' \in Seq(Call) /\ DOMAIN todo' = 1..(Len(todo) - 1) - 1
          /\ \A i \in 1..(Len(todo) - 1) - 1 : todo'[i] = Tail(todo)[i + 1]
      BY <2>1, <3>2, <3>4, SeqFacts
    <3>6. ASSUME NEW i \in 1..(Len(todo) - 1) - 1
          PROVE  i \in Nat /\ i >= 1 /\ i + 2 \in 1..Len(todo) /\ todo'[i] = todo[i + 2]
      <4>1. i \in Nat /\ i >= 1 /\ i + 2 \in 1..Len(todo) /\ i + 1 \in 1..Len(todo) - 1 /\ (i + 1) + 1 = i + 2
        BY <3>2
      <4> QED BY <3>2, <3>5, <4>1
    <3>7. ASSUME NEW i \in 1..Len(todo), i > 2 PROVE i - 2 \in 1..(Len(todo) - 1) - 1 /\ todo'[i - 2] = todo[i]
      <4>1. i - 2 \in 1..(Len(todo) - 1) - 1 /\ (i - 2) + 2 = i
        BY <3>2, <3>7
      <4> QED BY <3>6, <4>1
    <3>8. \A i \in 1..Len(todo) : i \in Nat /\ i >= 1
      BY <3>2
    <3> QED BY <3>2, <3>5, <3>6, <3>7, <3>8 DEF Left, Ahead
  <2>4. CallsPaired' /\ FileOnce'
    BY <1>1, <2>1, <2>3, LeftPaired
  <2>5. \A i \in Ahead : ~Renames(i, "file")
    <3> SUFFICES ASSUME NEW i \in Ahead, Renames(i, "file") PROVE FALSE
      OBVIOUS
    <3>1. i \in Nat /\ i >= 1 /\ i # 1
      BY <2>2, <2>3 DEF Left, Renames
    <3>2. 1 \in 1..i - 1
      BY <3>1
    <3>3. \A j \in 1..i - 1 : todo[j].to # "lastGood"
      BY DEF StorageInv, PutAside
    <3> QED BY <2>2, <3>2, <3>3 DEF Renames
  <2>6. \A i \in Ahead' : ~Renames(i, "file")'
    <3> SUFFICES ASSUME NEW i \in Ahead' PROVE ~Renames(i, "file")'
      OBVIOUS
    <3>1. i + 2 \in Ahead /\ todo'[i] = todo[i + 2]
      BY <2>3 DEF Left
    <3> QED BY <2>5, <3>1 DEF Renames
  <2>7. PutAside'
    BY <2>6 DEF PutAside
  <2>8. ASSUME NEW i \in Ahead', todo'[i].to = "lastGood"
        PROVE  /\ phase \in {"loading", "running", "closing"} /\ todo'[i].doc = dir.file
               /\ phase # "loading" => \A j \in Ahead' : todo'[j].to = "lastGood"
    <3>1. i + 2 \in Ahead /\ todo'[i] = todo[i + 2]
      BY <2>3 DEF Left
    <3>2. /\ phase \in {"loading", "running", "closing"} /\ todo[i + 2].doc = dir.file
          /\ phase # "loading" => \A j \in Ahead : todo[j].to = "lastGood"
      BY <2>5, <2>8, <3>1 DEF StorageInv, CopyOfFile
    <3>3. phase # "loading" => \A j \in Ahead' : todo'[j].to = "lastGood"
      BY <2>3, <3>2 DEF Left
    <3> QED BY <3>1, <3>2, <3>3
  <2>9. CopyOfFile'
    BY <1>1, <2>1, <2>6, <2>8 DEF CopyOfFile
  <2>10. NothingBad'
    <3>1. ~blind => \A i \in Ahead' : todo'[i].to = "lastGood" => todo'[i].doc # Bad
      BY <2>8 DEF StorageInv, NothingBad
    <3> QED BY <1>1, <2>1, <3>1 DEF StorageInv, NothingBad
  <2>11. CopyKnown'
    BY <1>4, <1>6 DEF CopyKnown
  <2>13. ClosedInOrder'
    BY <1>1, <2>1 DEF StorageInv, ClosedInOrder
  <2>12. StorageTypeOK'
    <3>1. todo' \in Seq(Call)
      BY <2>3 DEF Left
    <3> QED BY <1>1, <1>4, <2>1, <3>1 DEF StorageInv, StorageTypeOK
  <2> QED BY <1>5, <2>4, <2>7, <2>9, <2>10, <2>11, <2>12, <2>13 DEF StorageInv
<1>7. CASE Next1.to # "lastGood"
  <2>1. /\ todo' = <<>> /\ phase' = (IF phase \in {"running", "closing"} THEN phase ELSE "blocked") /\ (issue' = "io" \/ issue' = issue)
    BY <1>7 DEF Fails
  <2>2. StorageTypeOK'
    <3>1. todo' \in Seq(Call) /\ phase' \in Phases /\ issue' \in Issues
      BY <2>1, NoCalls DEF StorageInv, StorageTypeOK, Phases, Issues
    <3> QED BY <1>1, <1>4, <3>1 DEF StorageInv, StorageTypeOK
  <2>3. NothingBad'
    BY <1>1, <2>1 DEF StorageInv, NothingBad, Ahead
  <2>4. CopyKnown'
    <3>1. ~missed /\ phase = "running" /\ ~pending /\ dir.file \in Doc => dir.lastGood = dir.file
      <4> SUFFICES ASSUME ~missed, phase = "running", ~pending, dir.file \in Doc PROVE dir.lastGood = dir.file
        OBVIOUS
      <4>1. Copies(dir.file)
        BY <1>1, <1>2 DEF StorageInv, CopyKnown
      <4>2. ASSUME NEW i \in Ahead, Renames(i, "lastGood") PROVE FALSE
        BY <1>2, <1>7, <4>2 DEF StorageInv, CopyOfFile, Renames
      <4> QED BY <4>1, <4>2 DEF Copies
    <3>2. ~missed /\ closed # {} /\ closed \subseteq Doc => dir.lastGood \in closed
      <4> SUFFICES ASSUME ~missed, closed # {}, closed \subseteq Doc PROVE dir.lastGood \in closed
        OBVIOUS
      <4>1. ASSUME NEW i \in Ahead, Renames(i, "lastGood") PROVE FALSE
        BY <1>2, <1>3, <1>7, <4>1 DEF StorageInv, CopyOfFile, Renames
      <4> QED BY <4>1 DEF StorageInv, CopyKnown, CopySince
    <3> QED BY <1>1, <1>3, <1>4, <2>1, <3>1, <3>2 DEF CopyKnown, Copies, CopySince
  <2>5. ClosedInOrder'
    BY <1>1, <1>3, <2>1 DEF StorageInv, ClosedInOrder
  <2> QED BY <1>5, <2>1, <2>2, <2>3, <2>4, <2>5, NothingAhead DEF StorageInv
<1> QED BY <1>6, <1>7

-----------------------------------------------------------------------------
(* The theorems *)

LEMMA StorageStep == StorageInv /\ [StorageNext]_storageVars => StorageInv'
<1> SUFFICES ASSUME StorageInv, [StorageNext]_storageVars PROVE StorageInv'
  OBVIOUS
<1>1. CASE Load BY <1>1, LoadStep
<1>2. CASE Persist BY <1>2, PersistStep
<1>3. CASE Close BY <1>3, CloseStep
<1>4. CASE End BY <1>4, EndStep
<1>5. CASE Retry BY <1>5, RetryStep
<1>6. ASSUME NEW writes \in BOOLEAN, Construct(writes) PROVE StorageInv'
  BY <1>6, ConstructStep
<1>7. ASSUME NEW doc \in Doc, Recover(doc) PROVE StorageInv'
  BY <1>7, RecoverStep
<1>8. CASE Renamed BY <1>8, RenamedStep
<1>9. CASE Copied BY <1>9, CopiedStep
<1>10. ASSUME NEW done \in BOOLEAN, NEW refreshes \in BOOLEAN, Synced(done, refreshes) PROVE StorageInv'
  BY <1>10, SyncedStep
<1>11. CASE Fails BY <1>11, FailsStep
<1>12. CASE Unreadable BY <1>12, UnreadableStep
<1>13. CASE Crash BY <1>13, CrashStep
<1>14. CASE PowerLoss BY <1>14, PowerLossStep
<1>15. CASE Downgrade BY <1>15, DowngradeStep
<1>16. ASSUME NEW left \in {Bad, Missing}, Damage(left) PROVE StorageInv'
  BY <1>16, DamageStep
<1>17. CASE UNCHANGED storageVars
  <2>1. UNCHANGED <<dir, since, soft, phase, issue, todo, pending, edits, faults, accepted, closed, lost, missed, blind>>
    BY <1>17 DEF storageVars
  <2> QED BY <2>1 DEF StorageInv, StorageTypeOK, CallsPaired, FileOnce, Complete, PutAside, Kept, Taken, NothingBad, CopyOfFile,
                      CopyKnown, CopySince, ClosedInOrder, Ahead, Renames, PutBefore, Copies
<1> QED BY <1>1, <1>2, <1>3, <1>4, <1>5, <1>6, <1>7, <1>8, <1>9, <1>10, <1>11, <1>12, <1>13, <1>14, <1>15, <1>16, <1>17
        DEF StorageNext

\* The invariant holds of every run of a store, whatever fails and whenever it stops.
THEOREM StorageInvariant == StorageSpec => []StorageInv
<1> QED BY StorageInitially, StorageStep, PTL DEF StorageSpec

\* Files are what they may be: missing, damaged or a document of one of the two schemas
\* (versionedJson.ts).
THEOREM StorageTypes == StorageSpec => []StorageTypeOK
<1>1. StorageInv => StorageTypeOK
  BY DEF StorageInv
<1> QED BY <1>1, StorageInvariant, PTL

\* Wherever the process or the machine stops in writeFileAtomic, the file holds what was
\* written last or was being written.
THEOREM WritesSurvive == StorageSpec => []AcknowledgedSurvives
<1>1. StorageInv => AcknowledgedSurvives
  BY DEF StorageInv, Complete, AcknowledgedSurvives, OnDisk
<1> QED BY <1>1, StorageInvariant, PTL

\* The originals of migrations (ensureMigrationBackup) are in their place however the
\* directory is left, and what a recovery replaced (preserveCurrent, archiveLastGood) until
\* a power loss takes its copy, which copyVerified had not synced.
THEOREM NothingIsLost == StorageSpec => []OriginalsKept
<1>1. StorageInv => OriginalsKept
  BY DEF StorageInv, Complete, Kept, Taken, OriginalsKept, OnDisk
<1> QED BY <1>1, StorageInvariant, PTL

\* However many requests write to the closed store, the last-good copy (LastGoodRefresher)
\* that an orderly end leaves is what the file held at the close or later, unless a refresh
\* failed, and it is no damaged one.
THEOREM CopyIsGood == StorageSpec => []LastGoodIsGood
<1>1. StorageInv => LastGoodIsGood
  <2> SUFFICES ASSUME StorageInv PROVE LastGoodIsGood
    OBVIOUS
  <2>1. ~blind => dir.lastGood # Bad
    BY DEF StorageInv, Complete, NothingBad
  <2>2. phase = "down" /\ closed # {} /\ closed \subseteq Doc /\ ~missed => dir.lastGood \in closed
    BY IdleNothing DEF StorageInv, CopyKnown, CopySince, Ahead
  <2> QED BY <2>1, <2>2 DEF LastGoodIsGood
<1> QED BY <1>1, StorageInvariant, PTL
=============================================================================
