------------------------------ MODULE Rua_proofs ------------------------------
(***************************************************************************)
(* DMARC aggregate reports, from the XML to the tables.  RuaRollup: for    *)
(* any directory, reports and domain, the tables are sums over the records *)
(* of the reports kept, by induction over the reports, over the records of *)
(* a report and over the files.  RuaParse: for a document of any size,     *)
(* parse()'s stack is the path to the open element and its locals are what *)
(* the document says so far, so that a report read to its end says what    *)
(* the document says.                                                      *)
(***************************************************************************)
EXTENDS RuaRollup, RuaParse, DataTheorems

(* What the tables and the accumulator are made of.                        *)
Froms == UNION {ToSet(rec.header_from) : rec \in All}
IpType ==
  [messages : Nat, dkim_aligned : Nat, spf_aligned : Nat,
   none : Nat, quarantine : Nat, reject : Nat, header_froms : SUBSET Froms]
OrgType == [reports : Nat, messages_seen : Nat]
Tables(K, V) == UNION {[k -> V] : k \in SUBSET K}
AccType ==
  [begin : Nat, records_seen : Nat, messages_total : Nat, messages_aligned : Nat,
   seen : Nat, orphan_records : Nat,
   by_ip : Tables(Ips(Reports), IpType), by_org : Tables(Orgs(Reports), OrgType)]

(* A record's shape, and a report's.                                       *)
LEMMA RecordShape ==
  ASSUME NEW rec \in All
  PROVE  /\ rec.count \in Nat /\ rec.dkim_aligned \in BOOLEAN /\ rec.spf_aligned \in BOOLEAN
         /\ rec.source_ip \in Ips(Reports) /\ ToSet(rec.header_from) \subseteq Froms
         /\ \A c : Count(c, rec) \in Nat /\ Count(c, rec) <= rec.count
<1>1. /\ rec.count \in Nat /\ rec.dkim_aligned \in BOOLEAN /\ rec.spf_aligned \in BOOLEAN
  BY ReportsAssumption DEF All, Recs
<1>2. rec.source_ip \in Ips(Reports) /\ ToSet(rec.header_from) \subseteq Froms
  BY DEF All, Ips, Froms
<1>3. ASSUME NEW c PROVE Count(c, rec) \in Nat /\ Count(c, rec) <= rec.count
  BY <1>1 DEF Count
<1>4. QED BY <1>1, <1>2, <1>3

(* A report is dated, and made of records whose counts add up.             *)
LEMMA ReportShape ==
  ASSUME NEW r \in Reports
  PROVE  /\ r.begin \in Nat /\ r.records \in Seq(All) /\ r.org_name \in Orgs(Reports)
         /\ Counts(r) \in Seq(Nat) /\ Len(Counts(r)) = Len(r.records)
<1>1. r.begin \in Nat /\ r.records \in Seq(All) /\ r.org_name \in Orgs(Reports)
  BY ReportsAssumption DEF All, Orgs
<1>2. /\ Len(r.records) \in Nat /\ DOMAIN r.records = 1..Len(r.records)
      /\ \A i \in 1..Len(r.records) : r.records[i] \in All
  BY <1>1, LenProperties
<1>3. \A i \in 1..Len(r.records) : r.records[i].count \in Nat
  BY <1>2, RecordShape
<1>4. Counts(r) \in Seq(Nat) /\ Len(Counts(r)) = Len(r.records)
  BY <1>2, <1>3 DEF Counts
<1>5. QED BY <1>1, <1>4

(* A table's entry, and a table in which one is put.                       *)
LEMMA EntryTyped ==
  ASSUME NEW K, NEW V, NEW t \in Tables(K, V), NEW k, NEW d \in V
  PROVE  Entry(t, k, d) \in V
<1>1. PICK D \in SUBSET K : t \in [D -> V]
  BY DEF Tables
<1>2. QED BY <1>1 DEF Entry

(* What a table in which an entry is put is.                               *)
LEMMA PutTable ==
  ASSUME NEW K, NEW V, NEW t \in Tables(K, V), NEW k \in K, NEW v \in V
  PROVE  /\ Put(t, k, v) \in Tables(K, V)
         /\ DOMAIN Put(t, k, v) = DOMAIN t \cup {k} /\ Put(t, k, v)[k] = v
         /\ \A x \in DOMAIN t \ {k} : Put(t, k, v)[x] = t[x]
<1>1. PICK D \in SUBSET K : t \in [D -> V]
  BY DEF Tables
<1>2. Put(t, k, v) \in [D \cup {k} -> V] /\ D \cup {k} \in SUBSET K
  BY <1>1 DEF Put
<1>3. Put(t, k, v) \in Tables(K, V)
  BY <1>2 DEF Tables
<1>4. QED BY <1>1, <1>3 DEF Put

(* The defaults.                                                           *)
LEMMA NoEntries ==
  /\ NoIp \in IpType /\ NoOrg \in OrgType /\ NoRollup \in AccType
  /\ NoRollup.by_ip = << >> /\ NoRollup.by_org = << >>
<1>1. << >> \in [{} -> IpType] /\ << >> \in [{} -> OrgType]
  OBVIOUS
<1>2. << >> \in Tables(Ips(Reports), IpType) /\ << >> \in Tables(Orgs(Reports), OrgType)
  BY <1>1 DEF Tables
<1>3. QED BY <1>2 DEF NoIp, NoOrg, NoRollup, IpType, OrgType, AccType, NoDate

(* One record more.                                                        *)
LEMMA IpWithTyped ==
  ASSUME NEW ip \in IpType, NEW rec \in All
  PROVE  IpWith(ip, rec) \in IpType
<1>1. /\ rec.count \in Nat /\ ToSet(rec.header_from) \subseteq Froms /\ \A c : Count(c, rec) \in Nat
  BY RecordShape
<1>2. /\ ip.messages \in Nat /\ ip.dkim_aligned \in Nat /\ ip.spf_aligned \in Nat
      /\ ip.none \in Nat /\ ip.quarantine \in Nat /\ ip.reject \in Nat
      /\ ip.header_froms \subseteq Froms
  BY DEF IpType
<1>3. QED BY <1>1, <1>2 DEF IpWith, IpType

(* A record is added to an accumulator.                                    *)
LEMMA AddRecordTyped ==
  ASSUME NEW acc \in AccType, NEW rec \in All
  PROVE  AddRecord(acc, rec) \in AccType
<1>1. rec.count \in Nat /\ rec.source_ip \in Ips(Reports) /\ Count(Aligned(rec), rec) \in Nat
  BY RecordShape
<1>2. acc.by_ip \in Tables(Ips(Reports), IpType)
  BY DEF AccType
<1> DEFINE e == IpWith(Entry(acc.by_ip, rec.source_ip, NoIp), rec)
           t == Put(acc.by_ip, rec.source_ip, e)
<1>3. e \in IpType
  BY <1>1, <1>2, NoEntries, EntryTyped, IpWithTyped
<1>4. t \in Tables(Ips(Reports), IpType)
  BY <1>1, <1>2, <1>3, PutTable
<1>5. AddRecord(acc, rec) =
        [acc EXCEPT !.records_seen = @ + 1,
              !.messages_total = @ + rec.count,
              !.messages_aligned = @ + Count(Aligned(rec), rec),
              !.seen = @ + rec.count,
              !.by_ip = t]
  BY DEF AddRecord
<1> HIDE DEF t
<1>6. /\ acc.records_seen + 1 \in Nat /\ acc.messages_total + rec.count \in Nat
      /\ acc.messages_aligned + Count(Aligned(rec), rec) \in Nat /\ acc.seen + rec.count \in Nat
  BY <1>1 DEF AccType
<1> DEFINE a == acc.records_seen + 1
           b == acc.messages_total + rec.count
           c == acc.messages_aligned + Count(Aligned(rec), rec)
           d == acc.seen + rec.count
<1>7. /\ AddRecord(acc, rec) =
           [acc EXCEPT !.records_seen = a, !.messages_total = b, !.messages_aligned = c,
                       !.seen = d, !.by_ip = t]
      /\ a \in Nat /\ b \in Nat /\ c \in Nat /\ d \in Nat
  BY <1>5, <1>6
<1> HIDE DEF a, b, c, d
<1>8. QED BY <1>4, <1>7 DEF AccType

(* The records of a report, one after the other.                           *)
Adding(p) == [i \in 1..Len(p) |-> [x \in AccType |-> AddRecord(x, p[i])]]

(* The loop over the records is a recursion of such steps.                 *)
LEMMA AddRecordsForm ==
  ASSUME NEW acc \in AccType, NEW p \in Seq(All)
  PROVE  \E f : Recurs(f, Len(p), AccType, acc, Adding(p)) /\ AddRecords(acc, p) = f[Len(p)]
<1> DEFINE N == Len(p)
           Is(f) == f = [i \in 0..N |-> IF i = 0 THEN acc ELSE AddRecord(f[i - 1], p[i])]
<1>1. N \in Nat /\ \A i \in 1..N : p[i] \in All
  BY LenProperties
<1>2. Adding(p) \in [1..N -> [AccType -> AccType]]
  BY <1>1, AddRecordTyped DEF Adding
<1>3. \A i \in 1..N : \A x \in AccType : Adding(p)[i][x] = AddRecord(x, p[i])
  BY DEF Adding
<1>4. PICK f : Recurs(f, N, AccType, acc, Adding(p))
  BY <1>1, <1>2, RecursionExists
<1>5. Is(f)
  <2>1. \A i \in 1..N : i - 1 \in 0..N
    BY <1>1
  <2>2. \A i \in 1..N : f[i] = AddRecord(f[i - 1], p[i])
    BY <1>3, <1>4, <2>1 DEF Recurs
  <2>3. QED BY <1>1, <1>4, <2>2 DEF Recurs
<1> DEFINE g == CHOOSE f1 : Is(f1)
<1>6. Is(g) /\ AddRecords(acc, p) = g[N]
  BY <1>5 DEF AddRecords
<1> HIDE DEF g
<1>7. /\ g = [i \in 0..N |-> g[i]] /\ g[0] = acc
      /\ \A i \in 1..N : g[i] = AddRecord(g[i - 1], p[i])
  BY <1>1, <1>6
<1>8. \A i \in 1..N : g[i - 1] \in AccType => g[i] = Adding(p)[i][g[i - 1]]
  BY <1>3, <1>7
<1> HIDE DEF Is
<1>9. Recurs(g, N, AccType, acc, Adding(p))
  BY <1>1, <1>2, <1>7, <1>8, RecursTyped
<1>10. QED BY <1>6, <1>9

------------------------------------------------------------------------------
(* Sums over lines.                                                        *)
LEMMA LineShape ==
  ASSUME NEW l \in Lines(Reports)
  PROVE  RecordAt(l) \in All
<1>1. PICK r \in Reports : \E i \in DOMAIN r.records : l = <<r, i>>
  BY DEF Lines
<1>2. PICK i \in DOMAIN r.records : RecordAt(l) = r.records[i]
  BY <1>1 DEF RecordAt
<1>3. DOMAIN r.records = 1..Len(r.records) /\ \A j \in 1..Len(r.records) : r.records[j] \in All
  BY ReportShape, LenProperties
<1>4. QED BY <1>1, <1>2, <1>3

(* The messages of lines are a number.                                     *)
LEMMA SumTyped ==
  ASSUME NEW L \in SUBSET Lines(Reports), IsFiniteSet(L), NEW Q
  PROVE  /\ [l \in L |-> Count(RecordAt(l) \in Q, RecordAt(l))] \in [L -> Nat]
         /\ Sum(L, Q) \in Nat
<1> DEFINE f == [l \in L |-> Count(RecordAt(l) \in Q, RecordAt(l))]
<1>1. \A l \in L : Count(RecordAt(l) \in Q, RecordAt(l)) \in Nat
  BY LineShape, RecordShape
<1>2. f \in [L -> Nat]
  BY <1>1
<1>3. Sum(L, Q) = SumFunction(f)
  BY DEF Sum
<1> HIDE DEF f
<1>4. SumFunction(f) \in Nat
  BY <1>2, SumNat
<1>5. QED BY <1>2, <1>3, <1>4 DEF f

(* No line has a message.                                                  *)
LEMMA SumNone == ASSUME NEW Q PROVE Sum({}, Q) = 0
<1> DEFINE f == [l \in {} |-> Count(RecordAt(l) \in Q, RecordAt(l))]
<1>1. f \in [{} -> Nat] /\ Sum({}, Q) = SumFunction(f)
  BY DEF Sum
<1> HIDE DEF f
<1>2. QED BY <1>1, SumEmpty

(* A line more brings its messages, if its record is meant.                *)
LEMMA SumLine ==
  ASSUME NEW L \in SUBSET Lines(Reports), IsFiniteSet(L), NEW l \in Lines(Reports) \ L, NEW Q
  PROVE  Sum(L \cup {l}, Q) = Sum(L, Q) + Count(RecordAt(l) \in Q, RecordAt(l))
<1> DEFINE M == L \cup {l}
           f == [k \in L |-> Count(RecordAt(k) \in Q, RecordAt(k))]
           h == [k \in M |-> Count(RecordAt(k) \in Q, RecordAt(k))]
<1>1. M \in SUBSET Lines(Reports) /\ IsFiniteSet(M) /\ M \ {l} = L /\ l \in M
  BY FS_AddElement
<1>2. f \in [L -> Nat] /\ Sum(L, Q) = SumFunction(f)
  BY SumTyped DEF Sum
<1>3. h \in [M -> Nat] /\ Sum(M, Q) = SumFunction(h)
  <2> HIDE DEF M
  <2>1. QED BY <1>1, SumTyped DEF Sum
<1>4. (\A k \in L : h[k] = f[k]) /\ h[l] = Count(RecordAt(l) \in Q, RecordAt(l))
  OBVIOUS
<1>5. Sum(L, Q) \in Nat /\ h[l] \in Nat
  BY <1>1, <1>3, SumTyped
<1> HIDE DEF f, h, M
<1>6. SumFunction(h) = h[l] + SumFunction(f)
  BY <1>1, <1>2, <1>3, <1>4, SumRemove
<1>7. Sum(M, Q) = Sum(L, Q) + h[l]
  BY <1>2, <1>3, <1>5, <1>6
<1>8. QED BY <1>4, <1>7 DEF M

------------------------------------------------------------------------------
(* What an address's row says of the lines L: also when it has none yet.   *)
RowOf(x, L, ip) ==
  /\ x.messages = Sum(L, OfIp(ip))
  /\ x.dkim_aligned = Sum(L, OfIp(ip) \cap DkimAligned)
  /\ x.spf_aligned = Sum(L, OfIp(ip) \cap SpfAligned)
  /\ x.none + x.quarantine + x.reject <= x.messages
  /\ x.dkim_aligned <= x.messages /\ x.spf_aligned <= x.messages

Column(t) == [ip \in DOMAIN t |-> t[ip].messages]

(* What an accumulator says of the lines L it has seen.                    *)
TablesOf(acc, L) ==
  /\ DOMAIN acc.by_ip = {RecordAt(l).source_ip : l \in L} /\ IsFiniteSet(DOMAIN acc.by_ip)
  /\ \A ip \in Ips(Reports) : RowOf(Entry(acc.by_ip, ip, NoIp), L, ip)
  /\ SumFunction(Column(acc.by_ip)) = acc.messages_total
  /\ acc.messages_total = Sum(L, All)
  /\ acc.messages_aligned = Sum(L, DkimAligned \cup SpfAligned)
  /\ acc.messages_aligned <= acc.messages_total
  /\ acc.records_seen = Cardinality(L)

(* One record more: the row of an address.                                 *)
LEMMA RowStep ==
  ASSUME NEW L \in SUBSET Lines(Reports), IsFiniteSet(L), NEW l \in Lines(Reports) \ L,
         NEW ip \in Ips(Reports), NEW x \in IpType, RowOf(x, L, ip)
  PROVE  LET rec == RecordAt(l)
             y == IF ip = rec.source_ip THEN IpWith(x, rec) ELSE x
         IN  RowOf(y, L \cup {l}, ip)
<1> DEFINE rec == RecordAt(l)
           y == IF ip = rec.source_ip THEN IpWith(x, rec) ELSE x
           M == L \cup {l}
           n == rec.count
           A == OfIp(ip)
           B == OfIp(ip) \cap DkimAligned
           C == OfIp(ip) \cap SpfAligned
<1>1. rec \in All /\ n \in Nat /\ rec.dkim_aligned \in BOOLEAN /\ rec.spf_aligned \in BOOLEAN
  BY LineShape, RecordShape
<1>2. /\ x.messages \in Nat /\ x.dkim_aligned \in Nat /\ x.spf_aligned \in Nat
      /\ x.none \in Nat /\ x.quarantine \in Nat /\ x.reject \in Nat
  BY DEF IpType
<1>3. /\ Sum(M, A) = Sum(L, A) + Count(rec \in A, rec)
      /\ Sum(M, B) = Sum(L, B) + Count(rec \in B, rec)
      /\ Sum(M, C) = Sum(L, C) + Count(rec \in C, rec)
  BY SumLine
<1>4. /\ rec \in A <=> ip = rec.source_ip
      /\ rec \in B <=> ip = rec.source_ip /\ rec.dkim_aligned
      /\ rec \in C <=> ip = rec.source_ip /\ rec.spf_aligned
  BY <1>1 DEF OfIp, DkimAligned, SpfAligned
<1> HIDE DEF rec, A, B, C
<1>5. CASE ip # rec.source_ip
  <2>1. Sum(M, A) = x.messages /\ Sum(M, B) = x.dkim_aligned /\ Sum(M, C) = x.spf_aligned /\ y = x
    BY <1>2, <1>3, <1>4, <1>5 DEF Count, RowOf, A, B, C
  <2>2. QED BY <2>1 DEF RowOf, A, B, C, rec
<1>6. CASE ip = rec.source_ip
  <2>1. /\ y.messages = x.messages + n
        /\ y.dkim_aligned = x.dkim_aligned + Count(rec.dkim_aligned, rec)
        /\ y.spf_aligned = x.spf_aligned + Count(rec.spf_aligned, rec)
        /\ y.none = x.none + Count(rec.disposition = "none", rec)
        /\ y.quarantine = x.quarantine + Count(rec.disposition = "quarantine", rec)
        /\ y.reject = x.reject + Count(rec.disposition = "reject", rec)
    BY <1>6 DEF IpWith
  <2> HIDE DEF y
  <2>2. y.messages = Sum(M, A) /\ y.dkim_aligned = Sum(M, B) /\ y.spf_aligned = Sum(M, C)
    BY <1>1, <1>3, <1>4, <1>6, <2>1 DEF Count, RowOf, A, B, C
  <2>3. y.dkim_aligned <= y.messages /\ y.spf_aligned <= y.messages
    BY <1>1, <1>2, <2>1 DEF Count, RowOf
  <2>4. y.none + y.quarantine + y.reject <= y.messages
    BY <1>1, <1>2, <2>1 DEF Count, RowOf
  <2>5. RowOf(y, M, ip)
    BY <2>2, <2>3, <2>4 DEF RowOf, A, B, C
  <2>6. QED BY <2>5 DEF y, rec
<1>7. QED BY <1>5, <1>6

(* One record more: all the tables.                                        *)
LEMMA TablesStep ==
  ASSUME NEW L \in SUBSET Lines(Reports), IsFiniteSet(L), NEW l \in Lines(Reports) \ L,
         NEW acc \in AccType, TablesOf(acc, L)
  PROVE  TablesOf(AddRecord(acc, RecordAt(l)), L \cup {l})
<1> DEFINE rec == RecordAt(l)
           ip == rec.source_ip
           n == rec.count
           M == L \cup {l}
           t == acc.by_ip
           e == Entry(t, ip, NoIp)
           v == IpWith(e, rec)
           u == Put(t, ip, v)
           res == AddRecord(acc, rec)
<1>1. /\ rec \in All /\ n \in Nat /\ rec.dkim_aligned \in BOOLEAN /\ rec.spf_aligned \in BOOLEAN
      /\ ip \in Ips(Reports) /\ Count(Aligned(rec), rec) \in Nat /\ Count(Aligned(rec), rec) <= n
  BY LineShape, RecordShape
<1>2. /\ t \in Tables(Ips(Reports), IpType) /\ acc.messages_total \in Nat
      /\ acc.messages_aligned \in Nat /\ acc.records_seen \in Nat
  BY DEF AccType
<1>3. e \in IpType /\ v \in IpType
  BY <1>1, <1>2, NoEntries, EntryTyped, IpWithTyped
<1> HIDE DEF rec, v
<1>4. /\ DOMAIN u = DOMAIN t \cup {ip} /\ u[ip] = v
      /\ \A x \in DOMAIN t \ {ip} : u[x] = t[x]
  <2>1. t \in Tables(Ips(Reports), IpType) /\ ip \in Ips(Reports) /\ v \in IpType
    BY <1>1, <1>2, <1>3
  <2> HIDE DEF t, ip
  <2>2. QED BY <2>1, PutTable, SMTT(60)
<1>5. /\ res.by_ip = u /\ res.messages_total = acc.messages_total + n
      /\ res.messages_aligned = acc.messages_aligned + Count(Aligned(rec), rec)
      /\ res.records_seen = acc.records_seen + 1
  BY DEF AddRecord, AccType, v
<1> HIDE DEF res, u
<1>6. DOMAIN res.by_ip = {RecordAt(k).source_ip : k \in M} /\ IsFiniteSet(DOMAIN res.by_ip)
  <2>1. DOMAIN t = {RecordAt(k).source_ip : k \in L} /\ IsFiniteSet(DOMAIN t)
    BY DEF TablesOf
  <2>2. IsFiniteSet(DOMAIN u)
    BY <1>4, <2>1, FS_AddElement
  <2>3. {RecordAt(k).source_ip : k \in M} = {RecordAt(k).source_ip : k \in L} \cup {ip}
    BY DEF rec
  <2>4. QED BY <1>4, <1>5, <2>1, <2>2, <2>3
<1>7. ASSUME NEW a \in Ips(Reports)
      PROVE  RowOf(Entry(res.by_ip, a, NoIp), M, a)
  <2> DEFINE x == Entry(t, a, NoIp)
  <2>1. RowOf(x, L, a)
    BY DEF TablesOf
  <2>2. x \in IpType
    BY <1>2, NoEntries, EntryTyped
  <2>3. Entry(res.by_ip, a, NoIp) = IF a = rec.source_ip THEN IpWith(x, rec) ELSE x
    <3>1. CASE a = ip
      BY <1>4, <1>5, <3>1 DEF Entry, v
    <3>2. CASE a # ip
      BY <1>4, <1>5, <3>2 DEF Entry
    <3>3. QED BY <3>1, <3>2
  <2> HIDE DEF x
  <2>4. RowOf(IF a = rec.source_ip THEN IpWith(x, rec) ELSE x, M, a)
    BY <2>1, <2>2, RowStep DEF rec
  <2>5. QED BY <2>3, <2>4
<1>8. SumFunction(Column(res.by_ip)) = res.messages_total
  <2> DEFINE D == DOMAIN t
             f == Column(t)
             h == Column(u)
  <2>1. IsFiniteSet(D)
    BY DEF TablesOf
  <2>2. \A x \in D : t[x] \in IpType
    BY <1>2 DEF Tables
  <2>3. f \in [D -> Nat]
    BY <2>2 DEF Column, IpType
  <2>4. v.messages \in Nat /\ v.messages = e.messages + n
    BY <1>3 DEF IpType, IpWith, v
  <2>5. /\ h \in [D \cup {ip} -> Nat] /\ h[ip] = v.messages /\ \A x \in D \ {ip} : f[x] = h[x]
    <3>1. \A x \in D \ {ip} : u[x].messages \in Nat
      BY <1>4, <2>2 DEF IpType
    <3>2. QED BY <1>4, <2>4, <3>1 DEF Column
  <2>6. e.messages = IF ip \in D THEN f[ip] ELSE 0
    BY DEF Entry, Column, NoIp
  <2> HIDE DEF D, f, h, ip, e
  <2>7. SumFunction(h) + (IF ip \in D THEN f[ip] ELSE 0) = SumFunction(f) + h[ip]
    BY <2>1, <2>3, <2>5, SumPut
  <2>8. SumFunction(h) \in Nat /\ e.messages \in Nat
    <3>1. IsFiniteSet(D \cup {ip})
      BY <2>1, FS_AddElement
    <3>2. QED BY <1>3, <2>5, <3>1, SumNat DEF IpType
  <2>9. SumFunction(f) = acc.messages_total
    BY DEF TablesOf, f
  <2>10. QED BY <1>1, <1>2, <1>5, <2>4, <2>5, <2>6, <2>7, <2>8, <2>9 DEF h
<1>9. res.messages_total = Sum(M, All)
  <2>1. Sum(M, All) = Sum(L, All) + Count(rec \in All, rec)
    BY SumLine DEF rec
  <2>2. Count(rec \in All, rec) = n
    BY <1>1 DEF Count
  <2>3. QED BY <1>5, <2>1, <2>2 DEF TablesOf
<1>10. res.messages_aligned = Sum(M, DkimAligned \cup SpfAligned)
  <2>1. Sum(M, DkimAligned \cup SpfAligned)
          = Sum(L, DkimAligned \cup SpfAligned) + Count(rec \in DkimAligned \cup SpfAligned, rec)
    BY SumLine DEF rec
  <2>2. Count(rec \in DkimAligned \cup SpfAligned, rec) = Count(Aligned(rec), rec)
    BY <1>1 DEF Count, DkimAligned, SpfAligned, Aligned
  <2>3. QED BY <1>5, <2>1, <2>2 DEF TablesOf
<1>11. res.messages_aligned <= res.messages_total
  BY <1>1, <1>2, <1>5 DEF TablesOf
<1>12. res.records_seen = Cardinality(M)
  BY <1>5, FS_AddElement DEF TablesOf
<1>13. QED BY <1>6, <1>7, <1>8, <1>9, <1>10, <1>11, <1>12 DEF TablesOf, rec, res

------------------------------------------------------------------------------
(* The lines of one report.                                                *)
FirstLines(r, k) == {<<r, i>> : i \in 1..k}
With(L, r, k) == L \cup FirstLines(r, k)

(* A report is added line by line.                                         *)
LEMMA PartStep ==
  ASSUME NEW r \in Reports, NEW k \in Nat, k + 1 <= Len(r.records),
         NEW L \in SUBSET Lines(Reports), IsFiniteSet(With(L, r, k)),
         \A i \in DOMAIN r.records : <<r, i>> \notin L
  PROVE  LET M == With(L, r, k)
             l == <<r, k + 1>>
         IN  /\ M \in SUBSET Lines(Reports) /\ l \in Lines(Reports) \ M
             /\ With(L, r, k + 1) = M \cup {l} /\ IsFiniteSet(M \cup {l})
             /\ RecordAt(l) = r.records[k + 1] /\ Counts(r)[k + 1] = RecordAt(l).count
             /\ RecordAt(l) \in All
<1> DEFINE M == With(L, r, k)
           l == <<r, k + 1>>
<1>1. DOMAIN r.records = 1..Len(r.records) /\ Len(r.records) \in Nat
  BY ReportShape, LenProperties
<1>2. \A i \in 1..(k + 1) : i \in DOMAIN r.records
  BY <1>1
<1>3. \A i \in 1..(k + 1) : <<r, i>> \in Lines(Reports)
  BY <1>2 DEF Lines
<1>4. l \notin M /\ k + 1 \in 1..(k + 1)
  BY <1>2 DEF FirstLines, With
<1>5. M \in SUBSET Lines(Reports)
  <2>1. \A i \in 1..k : <<r, i>> \in Lines(Reports)
    BY <1>3
  <2>2. QED BY <2>1 DEF FirstLines, With
<1>6. With(L, r, k + 1) = M \cup {l}
  <2>1. 1..(k + 1) = 1..k \cup {k + 1}
    OBVIOUS
  <2>2. QED BY <2>1 DEF FirstLines, With
<1>7. IsFiniteSet(M \cup {l})
  BY FS_AddElement
<1>8. RecordAt(l) = r.records[k + 1] /\ Counts(r)[k + 1] = RecordAt(l).count
  BY <1>2, <1>4 DEF RecordAt, Counts
<1>9. l \in Lines(Reports)
  BY <1>3, <1>4
<1>10. RecordAt(l) \in All
  BY <1>9, LineShape
<1>11. QED BY <1>4, <1>5, <1>6, <1>7, <1>8, <1>9, <1>10

(* After its last line, all of it is.                                      *)
LEMMA PartWhole ==
  ASSUME NEW r \in Reports, NEW L
  PROVE  With(L, r, Len(r.records)) = L \cup Lines({r}) /\ With(L, r, 0) = L
<1>1. DOMAIN r.records = 1..Len(r.records)
  BY ReportShape, LenProperties
<1>2. QED BY <1>1 DEF FirstLines, Lines, With

(* The messages of a report's lines are what its counts add up to.         *)
LEMMA SumReport ==
  ASSUME NEW r \in Reports, NEW L \in SUBSET Lines(Reports), IsFiniteSet(L),
         \A i \in DOMAIN r.records : <<r, i>> \notin L
  PROVE  LET M == L \cup Lines({r})
         IN  IsFiniteSet(M) /\ Sum(M, All) = Sum(L, All) + Total(Counts(r))
<1> DEFINE N == Len(r.records)
<1>1. N \in Nat /\ Counts(r) \in Seq(Nat) /\ Len(Counts(r)) = N
  BY ReportShape, LenProperties
<1>2. PICK g \in [0..N -> Nat] :
        /\ g[0] = 0 /\ \A i \in 1..N : g[i] = g[i - 1] + Counts(r)[i]
        /\ Total(Counts(r)) = g[N]
  BY <1>1, TotalForm
<1> HIDE DEF N
<1> DEFINE T == {k \in Nat : k <= N =>
                   /\ IsFiniteSet(With(L, r, k))
                   /\ Sum(With(L, r, k), All) = Sum(L, All) + g[k]}
<1>3. Sum(L, All) \in Nat
  BY SumTyped
<1>4. 0 \in T
  <2>1. With(L, r, 0) = L
    BY PartWhole
  <2>2. QED BY <1>2, <1>3, <2>1
<1>5. ASSUME NEW k \in Nat, k \in T
      PROVE  k + 1 \in T
  <2> SUFFICES ASSUME k + 1 <= N
               PROVE  /\ IsFiniteSet(With(L, r, k + 1))
                      /\ Sum(With(L, r, k + 1), All) = Sum(L, All) + g[k + 1]
    OBVIOUS
  <2> DEFINE M == With(L, r, k)
             l == <<r, k + 1>>
  <2>1. k \in 0..N /\ k + 1 \in 1..N /\ (k + 1) - 1 = k
    BY <1>1
  <2>2. IsFiniteSet(M) /\ Sum(M, All) = Sum(L, All) + g[k]
    BY <1>1, <1>5
  <2>3. /\ M \in SUBSET Lines(Reports) /\ l \in Lines(Reports) \ M
        /\ With(L, r, k + 1) = M \cup {l} /\ IsFiniteSet(M \cup {l})
        /\ Counts(r)[k + 1] = RecordAt(l).count /\ RecordAt(l) \in All
    BY <2>2, PartStep DEF N
  <2> HIDE DEF M, l
  <2>4. Sum(M \cup {l}, All) = Sum(M, All) + RecordAt(l).count
    BY <2>2, <2>3, SumLine DEF Count
  <2>5. RecordAt(l).count \in Nat /\ g[k] \in Nat /\ g[k + 1] = g[k] + RecordAt(l).count
    BY <1>2, <2>1, <2>3, RecordShape
  <2> DEFINE K == M \cup {l}
  <2>6. With(L, r, k + 1) = K /\ IsFiniteSet(K) /\ Sum(K, All) = Sum(M, All) + RecordAt(l).count
    BY <2>3, <2>4
  <2> HIDE DEF K
  <2>7. QED BY <1>3, <2>2, <2>5, <2>6
<1>6. N \in T
  <2> HIDE DEF T
  <2>1. QED BY <1>1, <1>4, <1>5, NatInduct
<1> DEFINE M == L \cup Lines({r})
<1>7. With(L, r, N) = M
  BY PartWhole DEF N
<1> HIDE DEF M
<1>8. IsFiniteSet(M) /\ Sum(M, All) = Sum(L, All) + Total(Counts(r))
  BY <1>1, <1>2, <1>6, <1>7
<1>9. QED BY <1>8 DEF M

(* The tables after a report's records, from those before.                 *)
LEMMA RecordsAdded ==
  ASSUME NEW r \in Reports, NEW L \in SUBSET Lines(Reports), IsFiniteSet(L),
         \A i \in DOMAIN r.records : <<r, i>> \notin L,
         NEW acc \in AccType, TablesOf(acc, L)
  PROVE  LET a == AddRecords(acc, r.records)
         IN  /\ a \in AccType /\ TablesOf(a, L \cup Lines({r}))
             /\ a.seen = acc.seen + Total(Counts(r))
             /\ a.messages_total = acc.messages_total + Total(Counts(r))
             /\ a.by_org = acc.by_org /\ a.orphan_records = acc.orphan_records
             /\ a.begin = acc.begin
<1> DEFINE N == Len(r.records)
           p == r.records
<1>1. N \in Nat /\ Counts(r) \in Seq(Nat) /\ Len(Counts(r)) = N /\ p \in Seq(All)
  BY ReportShape, LenProperties
<1>2. PICK g \in [0..N -> Nat] :
        /\ g[0] = 0 /\ \A i \in 1..N : g[i] = g[i - 1] + Counts(r)[i]
        /\ Total(Counts(r)) = g[N]
  BY <1>1, TotalForm
<1>3. PICK f : Recurs(f, N, AccType, acc, Adding(p)) /\ AddRecords(acc, p) = f[N]
  BY <1>1, AddRecordsForm
<1>4. /\ f \in [0..N -> AccType] /\ f[0] = acc
      /\ \A i \in 1..N : f[i] = Adding(p)[i][f[i - 1]]
  BY <1>3 DEF Recurs
<1>5. ASSUME NEW i \in 1..N
      PROVE  f[i] = AddRecord(f[i - 1], p[i]) /\ f[i - 1] \in AccType
  <2>1. f[i - 1] \in AccType
    <3>1. i - 1 \in 0..N
      BY <1>1
    <3>2. QED BY <1>4, <3>1
  <2>2. QED BY <1>4, <2>1 DEF Adding
<1> HIDE DEF N, p
<1> DEFINE T == {k \in Nat : k <= N =>
                   /\ IsFiniteSet(With(L, r, k)) /\ TablesOf(f[k], With(L, r, k))
                   /\ f[k].seen = acc.seen + g[k]
                   /\ f[k].messages_total = acc.messages_total + g[k]
                   /\ f[k].by_org = acc.by_org /\ f[k].orphan_records = acc.orphan_records
                   /\ f[k].begin = acc.begin}
<1>6. acc.seen \in Nat /\ acc.messages_total \in Nat
  BY DEF AccType
<1>7. 0 \in T
  <2>1. With(L, r, 0) = L
    BY PartWhole
  <2>2. QED BY <1>2, <1>4, <1>6, <2>1
<1>8. ASSUME NEW k \in Nat, k \in T
      PROVE  k + 1 \in T
  <2> SUFFICES ASSUME k + 1 <= N
               PROVE  /\ IsFiniteSet(With(L, r, k + 1))
                      /\ TablesOf(f[k + 1], With(L, r, k + 1))
                      /\ f[k + 1].seen = acc.seen + g[k + 1]
                      /\ f[k + 1].messages_total = acc.messages_total + g[k + 1]
                      /\ f[k + 1].by_org = acc.by_org
                      /\ f[k + 1].orphan_records = acc.orphan_records
                      /\ f[k + 1].begin = acc.begin
    OBVIOUS
  <2> DEFINE M == With(L, r, k)
             l == <<r, k + 1>>
             b == f[k]
             rec == RecordAt(l)
  <2>1. k \in 0..N /\ k + 1 \in 1..N /\ (k + 1) - 1 = k
    BY <1>1
  <2>2. /\ IsFiniteSet(M) /\ TablesOf(b, M)
        /\ b.seen = acc.seen + g[k] /\ b.messages_total = acc.messages_total + g[k]
        /\ b.by_org = acc.by_org /\ b.orphan_records = acc.orphan_records /\ b.begin = acc.begin
    BY <1>1, <1>8
  <2>3. /\ M \in SUBSET Lines(Reports) /\ l \in Lines(Reports) \ M
        /\ With(L, r, k + 1) = M \cup {l} /\ IsFiniteSet(M \cup {l})
        /\ rec = p[k + 1] /\ Counts(r)[k + 1] = rec.count /\ rec \in All
    BY <2>2, PartStep DEF N, p
  <2>4. b \in AccType /\ f[k + 1] = AddRecord(b, rec)
    BY <1>5, <2>1, <2>3
  <2>5. g[k] \in Nat /\ g[k + 1] = g[k] + rec.count /\ rec.count \in Nat
    BY <1>2, <2>1, <2>3, RecordShape
  <2> HIDE DEF M, l, b
  <2>6. TablesOf(AddRecord(b, RecordAt(l)), M \cup {l})
    BY <2>2, <2>3, <2>4, TablesStep
  <2> HIDE DEF rec
  <2>7. /\ AddRecord(b, rec).seen = b.seen + rec.count
        /\ AddRecord(b, rec).messages_total = b.messages_total + rec.count
        /\ AddRecord(b, rec).by_org = b.by_org
        /\ AddRecord(b, rec).orphan_records = b.orphan_records
        /\ AddRecord(b, rec).begin = b.begin
    BY <2>4 DEF AddRecord, AccType
  <2>8. TablesOf(f[k + 1], With(L, r, k + 1)) /\ IsFiniteSet(With(L, r, k + 1))
    BY <2>3, <2>4, <2>6 DEF rec
  <2>9. QED BY <1>6, <2>2, <2>4, <2>5, <2>7, <2>8
<1>9. N \in T
  <2> HIDE DEF T
  <2>1. QED BY <1>1, <1>7, <1>8, NatInduct
<1>10. AddRecords(acc, p) \in AccType
  BY <1>1, <1>3, <1>4
<1> DEFINE M == L \cup Lines({r})
           a == AddRecords(acc, p)
<1>11. With(L, r, N) = M
  BY PartWhole DEF N
<1> HIDE DEF M
<1>12. /\ TablesOf(a, M) /\ a.seen = acc.seen + Total(Counts(r))
       /\ a.messages_total = acc.messages_total + Total(Counts(r))
       /\ a.by_org = acc.by_org /\ a.orphan_records = acc.orphan_records
       /\ a.begin = acc.begin
  BY <1>1, <1>2, <1>3, <1>9, <1>11
<1>13. QED BY <1>10, <1>12 DEF p, M

------------------------------------------------------------------------------
(* One report more.  Its parts in AddReport:                               *)
Dated(acc, r) == [acc EXCEPT !.begin = Earlier(@, r.begin), !.seen = 0]
Counted(acc, r) ==
  IF Foreign(r) THEN [Dated(acc, r) EXCEPT !.orphan_records = @ + Total(Counts(r))]
  ELSE AddRecords(Dated(acc, r), r.records)
OrgRow(acc, r) ==
  LET org == Entry(acc.by_org, r.org_name, NoOrg)
  IN  [reports |-> org.reports + 1, messages_seen |-> org.messages_seen + Counted(acc, r).seen]

(* AddReport in two parts: what is counted, then the organisation's row.   *)
LEMMA AddReportParts ==
  ASSUME NEW acc, NEW r
  PROVE  AddReport(acc, r) =
           [Counted(acc, r) EXCEPT !.by_org = Put(@, r.org_name, OrgRow(acc, r))]
BY DEF AddReport, Counted, OrgRow, Dated

(* The first of them, before the records.                                  *)
LEMMA DatedTyped ==
  ASSUME NEW acc \in AccType, NEW r \in Reports
  PROVE  /\ Dated(acc, r) \in AccType /\ Dated(acc, r).seen = 0
         /\ \A L : TablesOf(acc, L) => TablesOf(Dated(acc, r), L)
         /\ Dated(acc, r).messages_total = acc.messages_total
         /\ Dated(acc, r).by_org = acc.by_org
         /\ Dated(acc, r).orphan_records = acc.orphan_records
<1>1. r.begin \in Nat /\ acc.begin \in Nat
  BY ReportShape DEF AccType
<1>2. Earlier(acc.begin, r.begin) \in Nat
  BY <1>1 DEF Earlier
<1> DEFINE b == Earlier(acc.begin, r.begin)
           d == Dated(acc, r)
<1>3. d = [acc EXCEPT !.begin = b, !.seen = 0] /\ b \in Nat
  BY <1>2 DEF Dated
<1> HIDE DEF b, d
<1>4. d \in AccType /\ d.seen = 0
  BY <1>3 DEF AccType
<1>5. /\ d.messages_total = acc.messages_total /\ d.by_org = acc.by_org
      /\ d.orphan_records = acc.orphan_records /\ d.by_ip = acc.by_ip
      /\ d.messages_aligned = acc.messages_aligned /\ d.records_seen = acc.records_seen
  BY <1>3 DEF AccType
<1>6. ASSUME NEW L, TablesOf(acc, L) PROVE TablesOf(d, L)
  BY <1>5, <1>6 DEF TablesOf
<1>7. QED BY <1>4, <1>5, <1>6 DEF d

(* What is counted, with the lines of the reports seen.                    *)
LEMMA CountedTyped ==
  ASSUME NEW acc \in AccType, NEW r \in Reports
  PROVE  Counted(acc, r) \in AccType
<1> DEFINE d == Dated(acc, r)
<1>1. d \in AccType
  BY DatedTyped
<1>2. r.records \in Seq(All) /\ Total(Counts(r)) \in Nat
  BY ReportShape, TotalNat
<1> HIDE DEF d
<1>3. AddRecords(d, r.records) \in AccType
  <2>1. PICK f : Recurs(f, Len(r.records), AccType, d, Adding(r.records))
                   /\ AddRecords(d, r.records) = f[Len(r.records)]
    BY <1>1, <1>2, AddRecordsForm
  <2>2. Len(r.records) \in Nat
    BY <1>2, LenProperties
  <2>3. QED BY <2>1, <2>2 DEF Recurs
<1>4. [d EXCEPT !.orphan_records = @ + Total(Counts(r))] \in AccType
  <2>1. d.orphan_records + Total(Counts(r)) \in Nat
    BY <1>1, <1>2 DEF AccType
  <2> DEFINE n == d.orphan_records + Total(Counts(r))
  <2>2. [d EXCEPT !.orphan_records = n] \in AccType
    <3> HIDE DEF n
    <3>1. n \in Nat
      BY <2>1 DEF n
    <3>2. QED BY <1>1, <3>1 DEF AccType
  <2>3. QED BY <2>2
<1>5. QED BY <1>3, <1>4 DEF Counted, d

(* A report is added to an accumulator.                                    *)
LEMMA AddReportTyped ==
  ASSUME NEW acc \in AccType, NEW r \in Reports
  PROVE  /\ AddReport(acc, r) \in AccType
         /\ OrgRow(acc, r) \in OrgType
<1> DEFINE c == Counted(acc, r)
           w == OrgRow(acc, r)
           t == Put(c.by_org, r.org_name, w)
<1>1. c \in AccType
  BY CountedTyped
<1>2. acc.by_org \in Tables(Orgs(Reports), OrgType) /\ c.by_org \in Tables(Orgs(Reports), OrgType)
      /\ c.seen \in Nat
  BY <1>1 DEF AccType
<1>3. w \in OrgType
  <2>1. Entry(acc.by_org, r.org_name, NoOrg) \in OrgType
    BY <1>2, NoEntries, EntryTyped
  <2>2. QED BY <1>2, <2>1 DEF OrgRow, OrgType
<1>4. r.org_name \in Orgs(Reports)
  BY ReportShape
<1> HIDE DEF w, c
<1>5. t \in Tables(Orgs(Reports), OrgType)
  BY <1>2, <1>3, <1>4, PutTable
<1>6. AddReport(acc, r) = [c EXCEPT !.by_org = t]
  BY AddReportParts DEF c, w
<1> HIDE DEF t
<1>7. AddReport(acc, r) \in AccType
  BY <1>1, <1>5, <1>6 DEF AccType
<1>8. QED BY <1>3, <1>7 DEF w

(* The reports, one after the other.                                       *)
Rolling(s) == [i \in 1..Len(s) |-> [x \in AccType |-> AddReport(x, s[i])]]

(* The loop over the reports is a recursion of such steps.                 *)
LEMMA RollupForm ==
  ASSUME NEW s \in Seq(Reports)
  PROVE  \E f : Recurs(f, Len(s), AccType, NoRollup, Rolling(s)) /\ RollupOf(s) = f[Len(s)]
<1> DEFINE N == Len(s)
           acc == NoRollup
           Is(f) == f = [i \in 0..N |-> IF i = 0 THEN acc ELSE AddReport(f[i - 1], s[i])]
<1>1. N \in Nat /\ \A i \in 1..N : s[i] \in Reports
  BY LenProperties
<1>2. Rolling(s) \in [1..N -> [AccType -> AccType]]
  BY <1>1, AddReportTyped DEF Rolling
<1>3. \A i \in 1..N : \A x \in AccType : Rolling(s)[i][x] = AddReport(x, s[i])
  BY DEF Rolling
<1>4. acc \in AccType
  BY NoEntries
<1> HIDE DEF acc
<1>5. PICK f : Recurs(f, N, AccType, acc, Rolling(s))
  BY <1>1, <1>2, <1>4, RecursionExists
<1>6. Is(f)
  <2>1. \A i \in 1..N : i - 1 \in 0..N
    BY <1>1
  <2>2. \A i \in 1..N : f[i] = AddReport(f[i - 1], s[i])
    BY <1>3, <1>5, <2>1 DEF Recurs
  <2>3. QED BY <1>1, <1>5, <2>2 DEF Recurs
<1> DEFINE g == CHOOSE f1 : Is(f1)
<1>7. Is(g) /\ RollupOf(s) = g[N]
  BY <1>6 DEF RollupOf, acc
<1> HIDE DEF g
<1>8. /\ g = [i \in 0..N |-> g[i]] /\ g[0] = acc
      /\ \A i \in 1..N : g[i] = AddReport(g[i - 1], s[i])
  BY <1>1, <1>7
<1>9. \A i \in 1..N : g[i - 1] \in AccType => g[i] = Rolling(s)[i][g[i - 1]]
  BY <1>3, <1>8
<1> HIDE DEF Is
<1>10. Recurs(g, N, AccType, acc, Rolling(s))
  BY <1>1, <1>2, <1>4, <1>8, <1>9, RecursTyped
<1>11. QED BY <1>7, <1>10 DEF acc

(* So the rollup of a report more is that report added.                    *)
LEMMA RollupAppend ==
  ASSUME NEW s \in Seq(Reports), NEW r \in Reports
  PROVE  /\ RollupOf(<< >>) = NoRollup
         /\ RollupOf(s) \in AccType
         /\ RollupOf(Append(s, r)) = AddReport(RollupOf(s), r)
<1> DEFINE q == Append(s, r)
           N == Len(s)
<1>1. /\ N \in Nat /\ q \in Seq(Reports) /\ Len(q) = N + 1 /\ q[N + 1] = r
      /\ \A i \in 1..N : q[i] = s[i]
  BY LenProperties, AppendProperties
<1>2. << >> \in Seq(Reports) /\ Len(<< >>) = 0
  OBVIOUS
<1>3. RollupOf(<< >>) = NoRollup
  BY <1>2, RollupForm DEF Recurs
<1>4. PICK f : Recurs(f, N, AccType, NoRollup, Rolling(s)) /\ RollupOf(s) = f[N]
  BY RollupForm
<1> HIDE DEF q, N
<1>5. PICK g : Recurs(g, N + 1, AccType, NoRollup, Rolling(q)) /\ RollupOf(q) = g[N + 1]
  BY <1>1, RollupForm
<1>6. \A i \in 1..N : Rolling(s)[i] = Rolling(q)[i]
  BY <1>1 DEF Rolling, N
<1>7. f[N] = g[N] /\ f[N] \in AccType
  <2>1. \A i \in 0..N : f[i] = g[i]
    BY <1>1, <1>4, <1>5, <1>6, RecursAgree
  <2>2. QED BY <1>1, <1>4, <2>1 DEF Recurs
<1>8. g[N + 1] = Rolling(q)[N + 1][g[(N + 1) - 1]]
  BY <1>1, <1>5 DEF Recurs
<1>9. g[N + 1] = AddReport(g[N], r)
  BY <1>1, <1>7, <1>8 DEF Rolling
<1>10. QED BY <1>3, <1>4, <1>5, <1>7, <1>9 DEF q

------------------------------------------------------------------------------
(* What the rollup of the reports s is.                                    *)
Seen(t) == [o \in DOMAIN t |-> t[o].messages_seen]
Filed(t) == [o \in DOMAIN t |-> t[o].reports]

RollupIs(acc, s) ==
  LET R == ToSet(s) IN
    /\ acc \in AccType
    /\ IsFiniteSet(Lines(R)) /\ TablesOf(acc, Lines(Own(R)))
    /\ DOMAIN acc.by_org = Orgs(R) /\ IsFiniteSet(DOMAIN acc.by_org)
    /\ SumFunction(Seen(acc.by_org)) = acc.messages_total
    /\ SumFunction(Filed(acc.by_org)) = Len(s)
    /\ acc.messages_total + acc.orphan_records = Sum(Lines(R), All)

(* The lines of one report more are others than those of the reports       *)
(* before.                                                                 *)
LEMMA LinesStep ==
  ASSUME NEW R \in SUBSET Reports, NEW r \in Reports \ R
  PROVE  /\ Lines(R \cup {r}) = Lines(R) \cup Lines({r}) /\ Lines(R) \in SUBSET Lines(Reports)
         /\ Lines(Own(R)) \subseteq Lines(R)
         /\ Own(R \cup {r}) = IF Foreign(r) THEN Own(R) ELSE Own(R) \cup {r}
         /\ Lines(Own(R \cup {r})) = IF Foreign(r) THEN Lines(Own(R)) ELSE Lines(Own(R)) \cup Lines({r})
         /\ \A i \in DOMAIN r.records : <<r, i>> \notin Lines(R)
<1>1. \A P \in SUBSET Reports : Lines(P \cup {r}) = Lines(P) \cup Lines({r})
  BY DEF Lines
<1>2. Lines(R) \in SUBSET Lines(Reports) /\ Lines(Own(R)) \subseteq Lines(R)
  BY DEF Lines, Own
<1>3. Own(R \cup {r}) = IF Foreign(r) THEN Own(R) ELSE Own(R) \cup {r}
  BY DEF Own
<1>4. \A i \in DOMAIN r.records : <<r, i>> \notin Lines(R)
  BY DEF Lines
<1>5. Lines(Own(R \cup {r})) = IF Foreign(r) THEN Lines(Own(R)) ELSE Lines(Own(R)) \cup Lines({r})
  <2>1. Own(R) \in SUBSET Reports
    BY DEF Own
  <2>2. CASE Foreign(r)
    BY <1>3, <2>2 DEF Lines
  <2>3. CASE ~Foreign(r)
    <3>1. Lines(Own(R \cup {r})) = Lines(Own(R) \cup {r})
      BY <1>3, <2>3 DEF Lines
    <3>2. QED BY <1>1, <2>1, <2>3, <3>1
  <2>4. QED BY <2>2, <2>3
<1>6. QED BY <1>1, <1>2, <1>3, <1>4, <1>5

(* A report that is none of those before: what is counted, whether it is   *)
(* about the domain or not.                                                *)
LEMMA CountedIs ==
  ASSUME NEW s \in Seq(Reports), NEW acc, RollupIs(acc, s), NEW r \in Reports \ ToSet(s)
  PROVE  LET c == Counted(acc, r)
             R == ToSet(s) \cup {r}
         IN  /\ c \in AccType /\ IsFiniteSet(Lines(R)) /\ TablesOf(c, Lines(Own(R)))
             /\ c.by_org = acc.by_org
             /\ c.messages_total = acc.messages_total + c.seen
             /\ c.messages_total + c.orphan_records = Sum(Lines(R), All)
<1> DEFINE c == Counted(acc, r)
           R == ToSet(s)
           Q == R \cup {r}
           d == Dated(acc, r)
           n == Total(Counts(r))
           K == Lines(Own(R))
<1>1. R \in SUBSET Reports /\ r \in Reports \ R
  <2>1. DOMAIN s = 1..Len(s) /\ \A i \in 1..Len(s) : s[i] \in Reports
    BY LenProperties
  <2>2. QED BY <2>1 DEF ToSet
<1>2. acc \in AccType /\ TablesOf(acc, K) /\ IsFiniteSet(Lines(R))
      /\ acc.messages_total + acc.orphan_records = Sum(Lines(R), All)
  BY DEF RollupIs
<1>3. /\ d \in AccType /\ d.seen = 0 /\ d.messages_total = acc.messages_total
      /\ d.by_org = acc.by_org /\ d.orphan_records = acc.orphan_records /\ TablesOf(d, K)
  BY <1>1, <1>2, DatedTyped
<1>4. n \in Nat /\ acc.messages_total \in Nat /\ acc.orphan_records \in Nat
  BY <1>1, <1>2, ReportShape, TotalNat DEF AccType
<1> HIDE DEF R
<1>5. /\ Lines(Q) = Lines(R) \cup Lines({r}) /\ Lines(R) \in SUBSET Lines(Reports)
      /\ K \subseteq Lines(R)
      /\ Lines(Own(Q)) = IF Foreign(r) THEN K ELSE K \cup Lines({r})
      /\ \A i \in DOMAIN r.records : <<r, i>> \notin Lines(R)
  BY <1>1, LinesStep
<1> HIDE DEF K, Q
<1>6. c \in AccType
  BY <1>1, <1>2, CountedTyped
<1>7. IsFiniteSet(Lines(Q)) /\ Sum(Lines(Q), All) = Sum(Lines(R), All) + n
  <2> DEFINE M == Lines(R) \cup Lines({r})
  <2>1. IsFiniteSet(M) /\ Sum(M, All) = Sum(Lines(R), All) + n
    BY <1>1, <1>2, <1>5, SumReport
  <2>2. M = Lines(Q)
    BY <1>5
  <2> HIDE DEF M
  <2>3. QED BY <2>1, <2>2
<1>8. CASE Foreign(r)
  <2>1. c = [d EXCEPT !.orphan_records = @ + n]
    BY <1>8 DEF Counted
  <2> HIDE DEF c, n, d
  <2>2. /\ c.by_org = d.by_org /\ c.seen = 0 /\ c.messages_total = d.messages_total
        /\ c.orphan_records = d.orphan_records + n
        /\ c.by_ip = d.by_ip /\ c.messages_aligned = d.messages_aligned
        /\ c.records_seen = d.records_seen
    BY <1>3, <2>1 DEF AccType
  <2>3. TablesOf(c, K)
    BY <1>3, <2>2 DEF TablesOf
  <2>4. Lines(Own(Q)) = K
    BY <1>5, <1>8
  <2>5. TablesOf(c, Lines(Own(Q)))
    <3> DEFINE U == Lines(Own(Q))
    <3>1. U = K
      BY <2>4
    <3> HIDE DEF U
    <3>2. TablesOf(c, U)
      BY <2>3, <3>1
    <3>3. QED BY <3>2 DEF U
  <2>6. c.messages_total + c.orphan_records = Sum(Lines(Q), All)
    BY <1>2, <1>3, <1>4, <1>7, <2>2
  <2>7. QED BY <1>3, <1>4, <1>6, <1>7, <2>2, <2>5, <2>6 DEF c, Q, R
<1>9. CASE ~Foreign(r)
  <2>1. c = AddRecords(d, r.records)
    BY <1>9 DEF Counted
  <2>2. K \in SUBSET Lines(Reports) /\ IsFiniteSet(K) /\ \A i \in DOMAIN r.records : <<r, i>> \notin K
    BY <1>2, <1>5, FS_Subset
  <2> HIDE DEF c, n, d
  <2> DEFINE M == K \cup Lines({r})
             a == AddRecords(d, r.records)
  <2>3. /\ TablesOf(a, M) /\ a.seen = d.seen + n /\ a.messages_total = d.messages_total + n
        /\ a.by_org = d.by_org /\ a.orphan_records = d.orphan_records
    BY <1>1, <1>3, <2>2, RecordsAdded DEF n
  <2>4. M = Lines(Own(Q))
    BY <1>5, <1>9
  <2> HIDE DEF M, a
  <2>5. TablesOf(c, Lines(Own(Q)))
    BY <2>1, <2>3, <2>4 DEF a
  <2>6. /\ c.seen = n /\ c.messages_total = acc.messages_total + n
        /\ c.by_org = acc.by_org /\ c.orphan_records = acc.orphan_records
    BY <1>3, <1>4, <2>1, <2>3 DEF a
  <2>7. c.messages_total + c.orphan_records = Sum(Lines(Q), All)
    BY <1>2, <1>4, <1>7, <2>6
  <2>8. QED BY <1>6, <1>7, <2>5, <2>6, <2>7 DEF c, Q, R
<1>10. QED BY <1>8, <1>9

(* An organisation's row, with a report more.                              *)
LEMMA OrgColumns ==
  ASSUME NEW t \in Tables(Orgs(Reports), OrgType), IsFiniteSet(DOMAIN t),
         NEW o \in Orgs(Reports), NEW n \in Nat
  PROVE  LET e == Entry(t, o, NoOrg)
             u == Put(t, o, [reports |-> e.reports + 1, messages_seen |-> e.messages_seen + n])
         IN  /\ DOMAIN u = DOMAIN t \cup {o} /\ IsFiniteSet(DOMAIN u)
             /\ SumFunction(Seen(u)) = SumFunction(Seen(t)) + n
             /\ SumFunction(Filed(u)) = SumFunction(Filed(t)) + 1
<1> DEFINE D == DOMAIN t
           e == Entry(t, o, NoOrg)
           w == [reports |-> e.reports + 1, messages_seen |-> e.messages_seen + n]
           u == Put(t, o, w)
<1>1. e \in OrgType
  BY NoEntries, EntryTyped
<1>2. w \in OrgType /\ w.reports = e.reports + 1 /\ w.messages_seen = e.messages_seen + n
  BY <1>1 DEF OrgType
<1> HIDE DEF w
<1>3. DOMAIN u = D \cup {o} /\ u[o] = w /\ \A x \in D \ {o} : u[x] = t[x]
  <2>1. w \in OrgType
    BY <1>2
  <2> HIDE DEF e
  <2>2. /\ DOMAIN Put(t, o, w) = DOMAIN t \cup {o} /\ Put(t, o, w)[o] = w
        /\ \A x \in DOMAIN t \ {o} : Put(t, o, w)[x] = t[x]
    BY <2>1, PutTable
  <2>3. QED BY <2>2
<1>4. IsFiniteSet(D \cup {o})
  BY FS_AddElement
<1>5. \A x \in D : t[x] \in OrgType
  BY DEF Tables
<1> HIDE DEF u
<1>6. \A x \in D \cup {o} : u[x] \in OrgType
  BY <1>2, <1>3, <1>5
<1>7. SumFunction(Seen(u)) = SumFunction(Seen(t)) + n
  <2> DEFINE f == Seen(t)
             h == Seen(u)
  <2>1. f \in [D -> Nat] /\ h \in [D \cup {o} -> Nat]
    BY <1>3, <1>5, <1>6 DEF Seen, OrgType
  <2>2. h[o] = e.messages_seen + n /\ \A x \in D \ {o} : f[x] = h[x]
    BY <1>2, <1>3 DEF Seen
  <2>3. e.messages_seen = (IF o \in D THEN f[o] ELSE 0) /\ e.messages_seen \in Nat
    BY <1>1 DEF Entry, Seen, NoOrg, OrgType
  <2> HIDE DEF D, f, h, e
  <2>4. SumFunction(h) + (IF o \in D THEN f[o] ELSE 0) = SumFunction(f) + h[o]
    BY <2>1, <2>2, SumPut DEF D
  <2>5. SumFunction(f) \in Nat /\ SumFunction(h) \in Nat
    BY <1>4, <2>1, SumNat DEF D
  <2>6. SumFunction(h) = SumFunction(f) + n
    BY <2>2, <2>3, <2>4, <2>5
  <2>7. QED BY <2>6 DEF f, h
<1>8. SumFunction(Filed(u)) = SumFunction(Filed(t)) + 1
  <2> DEFINE f == Filed(t)
             h == Filed(u)
  <2>1. f \in [D -> Nat] /\ h \in [D \cup {o} -> Nat]
    BY <1>3, <1>5, <1>6 DEF Filed, OrgType
  <2>2. h[o] = e.reports + 1 /\ \A x \in D \ {o} : f[x] = h[x]
    BY <1>2, <1>3 DEF Filed
  <2>3. e.reports = (IF o \in D THEN f[o] ELSE 0) /\ e.reports \in Nat
    BY <1>1 DEF Entry, Filed, NoOrg, OrgType
  <2> HIDE DEF D, f, h, e
  <2>4. SumFunction(h) + (IF o \in D THEN f[o] ELSE 0) = SumFunction(f) + h[o]
    BY <2>1, <2>2, SumPut DEF D
  <2>5. SumFunction(f) \in Nat /\ SumFunction(h) \in Nat
    BY <1>4, <2>1, SumNat DEF D
  <2>6. SumFunction(h) = SumFunction(f) + 1
    BY <2>2, <2>3, <2>4, <2>5
  <2>7. QED BY <2>6 DEF f, h
<1>9. QED BY <1>3, <1>4, <1>7, <1>8 DEF u, w

(* A report that is none of those before: the whole rollup.                *)
LEMMA RollupStep ==
  ASSUME NEW s \in Seq(Reports), NEW acc, RollupIs(acc, s), NEW r \in Reports \ ToSet(s)
  PROVE  RollupIs(AddReport(acc, r), Append(s, r))
<1> DEFINE c == Counted(acc, r)
           R == ToSet(s) \cup {r}
           o == r.org_name
           t == acc.by_org
           e == Entry(t, o, NoOrg)
           w == [reports |-> e.reports + 1, messages_seen |-> e.messages_seen + c.seen]
           u == Put(t, o, w)
           res == AddReport(acc, r)
<1>1. ToSet(Append(s, r)) = R /\ Len(Append(s, r)) = Len(s) + 1 /\ Len(s) \in Nat
  <2>1. <<r>> \in Seq(Reports) /\ ToSet(<<r>>) = {r} /\ Append(s, r) = s \o <<r>>
    BY AppendIsConcat DEF ToSet
  <2>2. ToSet(s \o <<r>>) = ToSet(s) \cup ToSet(<<r>>)
    BY <2>1, ToSetConcat
  <2>3. QED BY <2>1, <2>2, LenProperties, AppendProperties
<1>2. /\ acc \in AccType /\ t \in Tables(Orgs(Reports), OrgType) /\ acc.messages_total \in Nat
      /\ IsFiniteSet(DOMAIN t) /\ DOMAIN t = Orgs(ToSet(s))
      /\ SumFunction(Seen(t)) = acc.messages_total /\ SumFunction(Filed(t)) = Len(s)
  BY DEF RollupIs, AccType
<1>3. /\ c \in AccType /\ IsFiniteSet(Lines(R)) /\ TablesOf(c, Lines(Own(R)))
      /\ c.by_org = t /\ c.messages_total = acc.messages_total + c.seen
      /\ c.messages_total + c.orphan_records = Sum(Lines(R), All)
  BY CountedIs
<1>4. /\ res = [c EXCEPT !.by_org = u] /\ res \in AccType
      /\ o \in Orgs(Reports) /\ c.seen \in Nat
  <2>1. res = [c EXCEPT !.by_org = Put(@, o, w)]
    BY AddReportParts DEF OrgRow
  <2>2. res \in AccType /\ o \in Orgs(Reports) /\ c.seen \in Nat
    BY <1>2, <1>3, AddReportTyped, ReportShape DEF AccType
  <2> HIDE DEF res, c, w
  <2>3. QED BY <1>3, <2>1, <2>2
<1> HIDE DEF res, c
<1>5. /\ DOMAIN u = DOMAIN t \cup {o} /\ IsFiniteSet(DOMAIN u)
      /\ SumFunction(Seen(u)) = SumFunction(Seen(t)) + c.seen
      /\ SumFunction(Filed(u)) = SumFunction(Filed(t)) + 1
  <2>1. t \in Tables(Orgs(Reports), OrgType) /\ IsFiniteSet(DOMAIN t)
    BY <1>2
  <2> HIDE DEF t, o
  <2>2. QED BY <1>4, <2>1, OrgColumns
<1> HIDE DEF u
<1>6. /\ res.by_org = u /\ res.by_ip = c.by_ip /\ res.messages_total = c.messages_total
      /\ res.messages_aligned = c.messages_aligned /\ res.records_seen = c.records_seen
      /\ res.orphan_records = c.orphan_records
  BY <1>3, <1>4 DEF AccType
<1>7. DOMAIN u = Orgs(R)
  <2>1. Orgs(R) = Orgs(ToSet(s)) \cup {o}
    BY DEF Orgs
  <2>2. QED BY <1>2, <1>5, <2>1
<1>8. TablesOf(res, Lines(Own(R)))
  BY <1>3, <1>6 DEF TablesOf
<1> DEFINE q == Append(s, r)
<1>9. ToSet(q) = R /\ Len(q) = Len(s) + 1
  BY <1>1
<1> HIDE DEF q, R
<1>10. RollupIs(res, q)
  BY <1>2, <1>3, <1>4, <1>5, <1>6, <1>7, <1>8, <1>9 DEF RollupIs
<1>11. QED BY <1>10 DEF res, q

(* No two reports of s have the same id.                                   *)
Distinct(s) == \A i, j \in DOMAIN s : s[i].report_id = s[j].report_id => i = j

(* A report whose id is new may be appended.                               *)
LEMMA DistinctAppend ==
  ASSUME NEW s \in Seq(Reports), NEW r \in Reports
  PROVE  Distinct(Append(s, r)) <=>
           Distinct(s) /\ \A x \in ToSet(s) : x.report_id # r.report_id
<1> DEFINE q == Append(s, r)
           N == Len(s)
<1>1. /\ N \in Nat /\ DOMAIN s = 1..N /\ DOMAIN q = 1..(N + 1) /\ q[N + 1] = r
      /\ \A i \in 1..N : q[i] = s[i]
  BY LenProperties, AppendProperties
<1> HIDE DEF q, N
<1>2. Distinct(q) => Distinct(s) /\ \A x \in ToSet(s) : x.report_id # r.report_id
  <2> SUFFICES ASSUME Distinct(q)
               PROVE  Distinct(s) /\ \A x \in ToSet(s) : x.report_id # r.report_id
    OBVIOUS
  <2>1. Distinct(s)
    BY <1>1 DEF Distinct
  <2>2. ASSUME NEW i \in 1..N PROVE s[i].report_id # r.report_id
    BY <1>1 DEF Distinct
  <2>3. QED BY <1>1, <2>1, <2>2 DEF ToSet
<1>3. ASSUME Distinct(s), \A x \in ToSet(s) : x.report_id # r.report_id
      PROVE  Distinct(q)
  <2>1. \A i \in 1..N : s[i].report_id # r.report_id
    BY <1>1, <1>3 DEF ToSet
  <2>2. QED BY <1>1, <1>3, <2>1 DEF Distinct
<1>4. QED BY <1>2, <1>3 DEF q

(* The rollup of no report.                                                *)
LEMMA EmptyTables ==
  ASSUME NEW acc, NEW L, L = {}, DOMAIN acc.by_ip = {},
         acc.messages_total = 0, acc.messages_aligned = 0, acc.records_seen = 0
  PROVE  TablesOf(acc, L)
<1>1. \A Q : Sum(L, Q) = 0
  BY SumNone
<1>2. DOMAIN acc.by_ip = {RecordAt(l).source_ip : l \in L} /\ IsFiniteSet(DOMAIN acc.by_ip)
  BY FS_EmptySet
<1>3. ASSUME NEW ip \in Ips(Reports)
      PROVE  RowOf(Entry(acc.by_ip, ip, NoIp), L, ip)
  <2>1. Entry(acc.by_ip, ip, NoIp) = NoIp
    BY DEF Entry
  <2>2. RowOf(NoIp, L, ip)
    <3>1. /\ NoIp.messages = 0 /\ NoIp.dkim_aligned = 0 /\ NoIp.spf_aligned = 0
          /\ NoIp.none = 0 /\ NoIp.quarantine = 0 /\ NoIp.reject = 0
      BY DEF NoIp
    <3>2. QED BY <1>1, <3>1 DEF RowOf
  <2>3. QED BY <2>1, <2>2
<1>4. SumFunction(Column(acc.by_ip)) = acc.messages_total
  <2> DEFINE c == Column(acc.by_ip)
  <2>1. c \in [{} -> Nat]
    BY DEF Column
  <2> HIDE DEF c
  <2>2. SumFunction(c) = 0
    BY <2>1, SumEmpty
  <2>3. QED BY <2>2 DEF c
<1>5. acc.messages_total = Sum(L, All) /\ acc.messages_aligned = Sum(L, DkimAligned \cup SpfAligned)
  <2>1. Sum(L, All) = 0 /\ Sum(L, DkimAligned \cup SpfAligned) = 0
    BY <1>1
  <2>2. QED BY <2>1
<1>6. acc.messages_aligned <= acc.messages_total /\ acc.records_seen = Cardinality(L)
  BY FS_EmptySet
<1>7. QED BY <1>2, <1>3, <1>4, <1>5, <1>6 DEF TablesOf

(* The rollup of no report is empty, as it should be.                      *)
LEMMA NothingRolled ==
  << >> \in Seq(Reports) /\ RollupOf(<< >>) = NoRollup /\ RollupIs(NoRollup, << >>)
<1> DEFINE acc == NoRollup
<1>1. /\ acc \in AccType /\ acc.by_ip = << >> /\ acc.by_org = << >>
      /\ acc.messages_total = 0 /\ acc.messages_aligned = 0 /\ acc.records_seen = 0
      /\ acc.orphan_records = 0
  BY NoEntries DEF NoRollup
<1>2. << >> \in Seq(Reports) /\ Len(<< >>) = 0 /\ DOMAIN << >> = {}
  OBVIOUS
<1>3. RollupOf(<< >>) = NoRollup
  BY <1>2, RollupForm DEF Recurs
<1> HIDE DEF acc
<1>4. /\ ToSet(<< >>) = {} /\ Own({}) = {} /\ Lines({}) = {} /\ Orgs({}) = {}
  BY DEF ToSet, Own, Lines, Orgs
<1>5. TablesOf(acc, {})
  BY <1>1, <1>2, EmptyTables
<1>6. SumFunction(Seen(acc.by_org)) = 0 /\ SumFunction(Filed(acc.by_org)) = 0
  <2>1. Seen(acc.by_org) \in [{} -> Nat] /\ Filed(acc.by_org) \in [{} -> Nat]
    BY <1>1 DEF Seen, Filed
  <2>2. QED BY <2>1, SumEmpty
<1>7. Sum({}, All) = 0 /\ IsFiniteSet({})
  BY SumNone, FS_EmptySet
<1>8. RollupIs(acc, << >>)
  <2>1. IsFiniteSet(Lines(ToSet(<< >>))) /\ TablesOf(acc, Lines(Own(ToSet(<< >>))))
    BY <1>4, <1>5, <1>7
  <2>2. DOMAIN acc.by_org = Orgs(ToSet(<< >>)) /\ IsFiniteSet(DOMAIN acc.by_org)
    BY <1>1, <1>2, <1>4, <1>7
  <2>3. acc.messages_total + acc.orphan_records = Sum(Lines(ToSet(<< >>)), All)
    <3>1. Lines(ToSet(<< >>)) = {}
      BY <1>4
    <3>2. Sum(Lines(ToSet(<< >>)), All) = 0
      BY <1>7, <3>1, Zenon
    <3>3. QED BY <1>1, <3>2
  <2>4. QED BY <1>1, <1>2, <1>6, <2>1, <2>2, <2>3 DEF RollupIs
<1>9. QED BY <1>2, <1>3, <1>8 DEF acc

(* The rollup of any reports with different ids is theirs.                 *)
LEMMA RollupOfReports ==
  ASSUME NEW s \in Seq(Reports), Distinct(s)
  PROVE  RollupIs(RollupOf(s), s)
<1> DEFINE S == {q \in Seq(Reports) : Distinct(q) => RollupIs(RollupOf(q), q)}
<1>1. << >> \in S
  <2>1. << >> \in Seq(Reports) /\ RollupOf(<< >>) = NoRollup
    BY NothingRolled
  <2>2. QED BY <2>1, NothingRolled
<1>2. ASSUME NEW q \in Seq(Reports), NEW r \in Reports, q \in S
      PROVE  Append(q, r) \in S
  <2> SUFFICES ASSUME Distinct(Append(q, r))
               PROVE  RollupIs(RollupOf(Append(q, r)), Append(q, r))
    OBVIOUS
  <2>1. Distinct(q) /\ r \notin ToSet(q)
    BY DistinctAppend
  <2>2. RollupIs(RollupOf(q), q)
    BY <1>2, <2>1
  <2>3. RollupOf(Append(q, r)) = AddReport(RollupOf(q), r)
    BY RollupAppend
  <2>4. QED BY <2>1, <2>2, <2>3, RollupStep
<1>3. Seq(Reports) \subseteq S
  <2> HIDE DEF S
  <2>1. QED BY <1>1, <1>2, SeqInduct
<1>4. QED BY <1>3
------------------------------------------------------------------------------
(* The reports that are kept: each id once, ids and reports together.      *)
Ids(R) == {r.report_id : r \in R}
Kept == [seen : SUBSET Ids(Reports), kept : Seq(Reports)]
OncePerId(acc) == acc \in Kept /\ acc.seen = Ids(ToSet(acc.kept)) /\ Distinct(acc.kept)

(* A report is inserted into those kept.                                   *)
LEMMA InsertTyped ==
  ASSUME NEW acc \in Kept, NEW r \in Reports
  PROVE  Insert(acc, r) \in Kept
<1>1. r.report_id \in Ids(Reports) /\ Append(acc.kept, r) \in Seq(Reports)
  BY AppendProperties DEF Ids, Kept
<1> DEFINE n == acc.seen \cup {r.report_id}
           q == Append(acc.kept, r)
<1>2. n \in SUBSET Ids(Reports) /\ q \in Seq(Reports)
  BY <1>1 DEF Kept
<1>3. Insert(acc, r) = IF r.report_id \in acc.seen THEN acc ELSE [seen |-> n, kept |-> q]
  BY DEF Insert
<1> HIDE DEF n, q
<1>4. QED BY <1>2, <1>3 DEF Kept

(* The reports of s and one more.                                          *)
LEMMA ToSetAppend ==
  ASSUME NEW s \in Seq(Reports), NEW r \in Reports
  PROVE  ToSet(Append(s, r)) = ToSet(s) \cup {r}
<1>1. <<r>> \in Seq(Reports) /\ ToSet(<<r>>) = {r} /\ Append(s, r) = s \o <<r>>
  BY AppendIsConcat DEF ToSet
<1>2. ToSet(s \o <<r>>) = ToSet(s) \cup ToSet(<<r>>)
  <2> DEFINE t == <<r>>
  <2>1. t \in Seq(Reports)
    BY <1>1
  <2> HIDE DEF t
  <2>2. ToSet(s \o t) = ToSet(s) \cup ToSet(t)
    BY <2>1, ToSetConcat
  <2>3. QED BY <2>2 DEF t
<1>3. QED BY <1>1, <1>2

(* A report is kept when its id is new, and its id is known from then on.  *)
LEMMA InsertIs ==
  ASSUME NEW acc, OncePerId(acc), NEW r \in Reports
  PROVE  LET b == Insert(acc, r) IN
           /\ OncePerId(b) /\ b.seen = acc.seen \cup {r.report_id}
           /\ ToSet(b.kept) \subseteq ToSet(acc.kept) \cup {r}
<1> DEFINE b == Insert(acc, r)
<1>1. /\ acc \in Kept /\ acc.seen = Ids(ToSet(acc.kept)) /\ Distinct(acc.kept)
      /\ acc.kept \in Seq(Reports) /\ b \in Kept
  BY InsertTyped DEF OncePerId, Kept
<1>2. CASE r.report_id \in acc.seen
  BY <1>1, <1>2 DEF Insert, OncePerId
<1>3. CASE r.report_id \notin acc.seen
  <2>1. b.seen = acc.seen \cup {r.report_id} /\ b.kept = Append(acc.kept, r)
    BY <1>3 DEF Insert
  <2>2. ToSet(b.kept) = ToSet(acc.kept) \cup {r}
    BY <1>1, <2>1, ToSetAppend
  <2>3. \A x \in ToSet(acc.kept) : x.report_id # r.report_id
    BY <1>1, <1>3 DEF Ids
  <2>4. Distinct(b.kept)
    BY <1>1, <2>1, <2>3, DistinctAppend
  <2>5. b.seen = Ids(ToSet(b.kept))
    BY <1>1, <2>1, <2>2 DEF Ids
  <2>6. OncePerId(b)
    <3> HIDE DEF b
    <3>1. QED BY <1>1, <2>4, <2>5 DEF OncePerId
  <2>7. QED BY <2>1, <2>2, <2>6
<1>4. QED BY <1>2, <1>3

Inserting(rs) == [i \in 1..Len(rs) |-> [x \in Kept |-> Insert(x, rs[i])]]

(* The loop over a file's reports is a recursion of such steps.            *)
LEMMA InsertedForm ==
  ASSUME NEW acc \in Kept, NEW rs \in Seq(Reports)
  PROVE  \E f : Recurs(f, Len(rs), Kept, acc, Inserting(rs)) /\ Inserted(acc, rs) = f[Len(rs)]
<1> DEFINE N == Len(rs)
           Is(f) == f = [i \in 0..N |-> IF i = 0 THEN acc ELSE Insert(f[i - 1], rs[i])]
<1>1. N \in Nat /\ \A i \in 1..N : rs[i] \in Reports
  BY LenProperties
<1>2. Inserting(rs) \in [1..N -> [Kept -> Kept]]
  BY <1>1, InsertTyped DEF Inserting
<1>3. \A i \in 1..N : \A x \in Kept : Inserting(rs)[i][x] = Insert(x, rs[i])
  BY DEF Inserting
<1>4. PICK f : Recurs(f, N, Kept, acc, Inserting(rs))
  BY <1>1, <1>2, RecursionExists
<1>5. Is(f)
  <2>1. \A i \in 1..N : i - 1 \in 0..N
    BY <1>1
  <2>2. \A i \in 1..N : f[i] = Insert(f[i - 1], rs[i])
    BY <1>3, <1>4, <2>1 DEF Recurs
  <2>3. QED BY <1>1, <1>4, <2>2 DEF Recurs
<1> DEFINE g == CHOOSE f1 : Is(f1)
<1>6. Is(g) /\ Inserted(acc, rs) = g[N]
  BY <1>5 DEF Inserted
<1> HIDE DEF g
<1>7. /\ g = [i \in 0..N |-> g[i]] /\ g[0] = acc
      /\ \A i \in 1..N : g[i] = Insert(g[i - 1], rs[i])
  BY <1>1, <1>6
<1>8. \A i \in 1..N : g[i - 1] \in Kept => g[i] = Inserting(rs)[i][g[i - 1]]
  BY <1>3, <1>7
<1> HIDE DEF Is
<1>9. Recurs(g, N, Kept, acc, Inserting(rs))
  BY <1>1, <1>2, <1>7, <1>8, RecursTyped
<1>10. QED BY <1>6, <1>9

(* The reports of a file are inserted one after the other.                 *)
LEMMA InsertedIs ==
  ASSUME NEW acc, OncePerId(acc), NEW rs \in Seq(Reports)
  PROVE  LET b == Inserted(acc, rs) IN
           /\ OncePerId(b) /\ b.seen = acc.seen \cup Ids(ToSet(rs))
           /\ ToSet(b.kept) \subseteq ToSet(acc.kept) \cup ToSet(rs)
<1> DEFINE N == Len(rs)
           First(k) == {rs[i] : i \in 1..k}
<1>1. acc \in Kept /\ N \in Nat /\ \A i \in 1..N : rs[i] \in Reports
  BY LenProperties DEF OncePerId
<1>2. PICK f : Recurs(f, N, Kept, acc, Inserting(rs)) /\ Inserted(acc, rs) = f[N]
  BY <1>1, InsertedForm
<1>3. /\ f[0] = acc
      /\ \A i \in 1..N : f[i - 1] \in Kept => f[i] = Insert(f[i - 1], rs[i])
  BY <1>2 DEF Recurs, Inserting
<1> DEFINE Upto(k) == /\ OncePerId(f[k]) /\ f[k].seen = acc.seen \cup Ids(First(k))
                      /\ ToSet(f[k].kept) \subseteq ToSet(acc.kept) \cup First(k)
           T == {k \in Nat : k <= N => Upto(k)}
<1>4. 0 \in T
  BY <1>3 DEF Ids
<1>5. ASSUME NEW k \in Nat, k \in T
      PROVE  k + 1 \in T
  <2> SUFFICES ASSUME k + 1 <= N PROVE Upto(k + 1)
    OBVIOUS
  <2>1. Upto(k) /\ k + 1 \in 1..N /\ (k + 1) - 1 = k
    <3> HIDE DEF Upto, N
    <3>1. k <= N /\ k + 1 \in 1..N /\ (k + 1) - 1 = k
      BY <1>1
    <3>2. QED BY <1>5, <3>1
  <2> DEFINE r == rs[k + 1]
  <2>2. First(k + 1) = First(k) \cup {r}
    BY <2>1
  <2>3. Ids(First(k + 1)) = Ids(First(k)) \cup {r.report_id}
    BY <2>2 DEF Ids
  <2>4. OncePerId(f[k]) /\ r \in Reports /\ f[k + 1] = Insert(f[k], r)
    BY <1>1, <1>3, <2>1 DEF OncePerId
  <2> HIDE DEF r, First
  <2>5. /\ OncePerId(f[k + 1]) /\ f[k + 1].seen = f[k].seen \cup {r.report_id}
        /\ ToSet(f[k + 1].kept) \subseteq ToSet(f[k].kept) \cup {r}
    <3> DEFINE a == f[k]
    <3>1. OncePerId(a) /\ r \in Reports
      BY <2>4
    <3> HIDE DEF a
    <3>2. LET b == Insert(a, r) IN
            /\ OncePerId(b) /\ b.seen = a.seen \cup {r.report_id}
            /\ ToSet(b.kept) \subseteq ToSet(a.kept) \cup {r}
      BY <3>1, InsertIs
    <3>3. f[k + 1] = Insert(a, r)
      BY <2>4 DEF a
    <3>4. QED BY <3>2, <3>3 DEF a
  <2>6. f[k].seen = acc.seen \cup Ids(First(k)) /\ ToSet(f[k].kept) \subseteq ToSet(acc.kept) \cup First(k)
    BY <2>1
  <2>7. f[k + 1].seen = acc.seen \cup Ids(First(k + 1))
    BY <2>3, <2>5, <2>6
  <2>8. ToSet(f[k + 1].kept) \subseteq ToSet(acc.kept) \cup First(k + 1)
    BY <2>2, <2>5, <2>6
  <2>9. QED BY <2>5, <2>7, <2>8
<1>6. N \in T
  <2> HIDE DEF T
  <2>1. QED BY <1>1, <1>4, <1>5, NatInduct
<1>7. First(N) = ToSet(rs)
  BY LenProperties DEF ToSet
<1> HIDE DEF First
<1>8. QED BY <1>1, <1>2, <1>6, <1>7

------------------------------------------------------------------------------
(* A file's reports are reports.                                           *)
LEMMA ParsedTyped ==
  ASSUME NEW file \in Contents
  PROVE  Parsed(file) \in Seq(Reports)
<1>1. << >> \in Seq(Reports)
  OBVIOUS
<1>2. file.docs \in Seq(Document)
  BY ConstantsAssumption
<1>3. ReportsIn(file.docs) \in Seq(Reports)
  <2> DEFINE docs == file.docs
             parts == [i \in DOMAIN docs |-> IF docs[i].is = "report" THEN <<docs[i].report>> ELSE << >>]
  <2>1. /\ Len(docs) \in Nat /\ DOMAIN docs = 1..Len(docs)
        /\ \A i \in DOMAIN docs : docs[i] \in Document
    BY <1>2, LenProperties
  <2>2. \A d \in Document : d.is = "report" => d.report \in Reports
    BY DEF Document
  <2>3. \A i \in DOMAIN docs :
          (IF docs[i].is = "report" THEN <<docs[i].report>> ELSE << >>) \in Seq(Reports)
    <3> TAKE i \in DOMAIN docs
    <3>1. CASE docs[i].is = "report"
      BY <2>1, <2>2, <3>1
    <3>2. CASE docs[i].is # "report"
      BY <1>1, <3>2
    <3>3. QED BY <3>1, <3>2
  <2> HIDE DEF docs
  <2>4. parts \in [1..Len(docs) -> Seq(Reports)]
    BY <2>1, <2>3
  <2>5. parts \in Seq(Seq(Reports))
    <3> HIDE DEF parts
    <3>1. QED BY <2>1, <2>4
  <2>6. FlattenSeq(parts) \in Seq(Reports)
    <3> HIDE DEF parts
    <3>1. QED BY <2>5, FlattenTyped
  <2>7. QED BY <2>6 DEF ReportsIn, docs
<1>4. QED BY <1>1, <1>3 DEF Parsed

(* What the files S hold; Held is that of all.                             *)
From(S) == UNION {ToSet(Parsed(dir[f])) : f \in S}
Visited == Files \ pending

(* The properties are about a finished rollup: of the steps before it they *)
(* need that the reports kept are those of the files visited, once per id. *)
Collected ==
  /\ dir \in [Files -> Contents] /\ pending \subseteq Files
  /\ OncePerId([seen |-> seen, kept |-> reports])
  /\ ToSet(reports) \subseteq From(Visited) /\ Ids(From(Visited)) \subseteq seen

IInv ==
  /\ Collected
  /\ rollup # << >> => pending = {} /\ rollup = <<RollupOf(reports)>>

(* Nothing is visited at the start.                                        *)
LEMMA IInvInit == Init => IInv
<1> SUFFICES ASSUME Init PROVE IInv
  OBVIOUS
<1>1. << >> \in Seq(Reports) /\ ToSet(<< >>) = {} /\ DOMAIN << >> = {}
  BY DEF ToSet
<1>2. Visited = {} /\ From({}) = {} /\ Ids({}) = {}
  BY DEF Init, Visited, From, Ids
<1>3. OncePerId([seen |-> seen, kept |-> reports])
  <2>1. Distinct(<< >>)
    BY <1>1 DEF Distinct
  <2>2. [seen |-> seen, kept |-> reports] \in Kept
    BY <1>1 DEF Kept, Init
  <2>3. QED BY <1>1, <1>2, <2>1, <2>2 DEF OncePerId, Init
<1>4. ToSet(reports) \subseteq From(Visited) /\ Ids(From(Visited)) \subseteq seen
  <2>1. From(Visited) = {} /\ ToSet(reports) = {}
    BY <1>1, <1>2 DEF Init
  <2>2. Ids(From(Visited)) = {}
    BY <2>1 DEF Ids
  <2>3. QED BY <2>1, <2>2
<1>5. QED BY <1>3, <1>4 DEF Init, IInv, Collected

(* One file more.                                                          *)
LEMMA VisitKeeps ==
  ASSUME IInv, Visit
  PROVE  IInv'
<1> DEFINE a == [seen |-> seen, kept |-> reports]
<1>1. PICK f \in pending :
         LET acc == Inserted(a, Parsed(dir[f]))
         IN  seen' = acc.seen /\ reports' = acc.kept /\ pending' = pending \ {f}
  BY DEF Visit
<1> DEFINE rs == Parsed(dir[f])
           b == Inserted(a, rs)
<1>2. UNCHANGED <<dir, rollup>> /\ dir \in [Files -> Contents] /\ pending \subseteq Files
  BY DEF Visit, IInv, Collected
<1>3. rs \in Seq(Reports)
  BY <1>1, <1>2, ParsedTyped
<1>4. OncePerId(a) /\ a.seen = seen /\ a.kept = reports
  BY DEF IInv, Collected
<1> HIDE DEF a, rs
<1>5. /\ OncePerId(b) /\ b.seen = a.seen \cup Ids(ToSet(rs))
      /\ ToSet(b.kept) \subseteq ToSet(a.kept) \cup ToSet(rs)
  BY <1>3, <1>4, InsertedIs
<1>6. seen' = b.seen /\ reports' = b.kept /\ pending' = pending \ {f}
  BY <1>1 DEF rs
<1> HIDE DEF b
<1>7. OncePerId([seen |-> seen', kept |-> reports'])
  <2>1. b = [seen |-> b.seen, kept |-> b.kept]
    BY <1>5 DEF OncePerId, Kept
  <2>2. QED BY <1>5, <1>6, <2>1
<1>8. Visited' = Visited \cup {f} /\ f \in Files
  BY <1>1, <1>2, <1>6 DEF Visited
<1>9. From(Visited)' = From(Visited) \cup ToSet(rs)
  BY <1>2, <1>8 DEF From, rs
<1>10. Ids(From(Visited))' = Ids(From(Visited)) \cup Ids(ToSet(rs))
  BY <1>9 DEF Ids
<1>11. ToSet(reports') \subseteq From(Visited)' /\ Ids(From(Visited))' \subseteq seen'
  BY <1>4, <1>5, <1>6, <1>9, <1>10 DEF IInv, Collected
<1>12. rollup' = << >>
  BY <1>1, <1>2 DEF IInv
<1>13. QED BY <1>2, <1>6, <1>7, <1>11, <1>12 DEF IInv, Collected

(* Every step keeps the invariant.                                         *)
LEMMA IInvNext == IInv /\ [Next]_vars => IInv'
<1> SUFFICES ASSUME IInv, [Next]_vars PROVE IInv'
  OBVIOUS
<1>1. CASE Visit
  BY <1>1, VisitKeeps
<1>2. CASE Rollup
  <2>1. UNCHANGED <<dir, pending, seen, reports>> /\ pending = {} /\ rollup' = <<RollupOf(reports)>>
    BY <1>2 DEF Rollup
  <2>2. Collected'
    BY <2>1 DEF IInv, Collected, From, Visited
  <2>3. RollupOf(reports)' = RollupOf(reports)
    BY <2>1
  <2>4. QED BY <2>1, <2>2, <2>3 DEF IInv
<1>3. CASE UNCHANGED vars
  <2>1. Collected'
    BY <1>3 DEF vars, IInv, Collected, From, Visited
  <2>2. QED BY <1>3, <2>1 DEF vars, IInv
<1>4. QED BY <1>1, <1>2, <1>3 DEF Next

(* rollup_dir(): before the rollup, the reports kept are those of the      *)
(* entries visited, one per report_id.                                     *)
THEOREM ReportsAreOncePerId == Spec => []IInv
BY IInvInit, IInvNext, PTL DEF Spec

(* A finished rollup is that of the reports kept.                          *)
LEMMA FinishedIs ==
  ASSUME IInv, rollup # << >>
  PROVE  /\ RollupIs(rollup[1], reports) /\ DOMAIN rollup[1].by_ip \subseteq Ips(Reports)
         /\ \A ip \in DOMAIN rollup[1].by_ip :
              RowOf(rollup[1].by_ip[ip], Lines(Own(ToSet(reports))), ip)
<1> DEFINE R == rollup[1]
           L == Lines(Own(ToSet(reports)))
<1>1. R = RollupOf(reports) /\ reports \in Seq(Reports) /\ Distinct(reports)
  BY DEF IInv, Collected, OncePerId, Kept
<1> HIDE DEF R
<1>2. RollupIs(R, reports)
  BY <1>1, RollupOfReports
<1>3. DOMAIN R.by_ip \subseteq Ips(Reports)
  BY <1>2 DEF RollupIs, AccType, Tables
<1>4. TablesOf(R, L)
  BY <1>2 DEF RollupIs
<1> HIDE DEF L
<1>5. ASSUME NEW ip \in DOMAIN R.by_ip
      PROVE  RowOf(R.by_ip[ip], L, ip)
  <2>1. RowOf(Entry(R.by_ip, ip, NoIp), L, ip)
    BY <1>3, <1>4 DEF TablesOf
  <2>2. QED BY <2>1 DEF Entry
<1>6. QED BY <1>2, <1>3, <1>5 DEF R, L

(* rollup_from_reports(): the tables of addresses and of organisations     *)
(* both add up to the messages counted, and with the orphans to those      *)
(* reported, for any directory, whatever its reports say.                  *)
THEOREM MessagesConserved == Spec => []MessagesAreConserved
<1>1. ASSUME IInv, rollup # << >>
      PROVE  MessagesAreConserved
  <2> DEFINE R == rollup[1]
             L == Lines(Own(ToSet(reports)))
  <2>1. RollupIs(R, reports) /\ \A ip \in DOMAIN R.by_ip : RowOf(R.by_ip[ip], L, ip)
    BY <1>1, FinishedIs
  <2> HIDE DEF R, L
  <2>2. SumFunction([ip \in DOMAIN R.by_ip |-> R.by_ip[ip].messages]) = R.messages_total
    BY <2>1 DEF RollupIs, TablesOf, Column
  <2>3. SumFunction([o \in DOMAIN R.by_org |-> R.by_org[o].messages_seen]) = R.messages_total
    BY <2>1 DEF RollupIs, Seen
  <2>4. SumFunction([o \in DOMAIN R.by_org |-> R.by_org[o].reports]) = Len(reports)
    BY <2>1 DEF RollupIs, Filed
  <2>5. /\ R.messages_total + R.orphan_records = Sum(Lines(ToSet(reports)), All)
        /\ R.messages_aligned <= R.messages_total
    BY <2>1 DEF RollupIs, TablesOf
  <2>6. \A ip \in DOMAIN R.by_ip :
           LET x == R.by_ip[ip] IN
             /\ x.none + x.quarantine + x.reject <= x.messages
             /\ x.dkim_aligned <= x.messages /\ x.spf_aligned <= x.messages
    BY <2>1 DEF RowOf
  <2>7. QED BY <2>2, <2>3, <2>4, <2>5, <2>6 DEF R, MessagesAreConserved
<1>2. IInv => MessagesAreConserved
  BY <1>1 DEF MessagesAreConserved
<1>3. QED BY <1>2, ReportsAreOncePerId, PTL

(* When an id identifies a report, the reports kept are those held.        *)
LEMMA KeptAreHeld ==
  ASSUME IInv, pending = {}, IdsIdentify
  PROVE  ToSet(reports) = Held
<1>1. /\ ToSet(reports) \subseteq Held /\ Ids(Held) \subseteq Ids(ToSet(reports))
  <2>1. Visited = Files /\ From(Files) = Held
    BY DEF Visited, From, Held
  <2>2. seen = Ids(ToSet(reports))
    BY DEF IInv, Collected, OncePerId
  <2>3. QED BY <2>1, <2>2 DEF IInv, Collected
<1>2. ASSUME NEW r \in Held PROVE r \in ToSet(reports)
  <2>1. r.report_id \in Ids(ToSet(reports))
    BY <1>1 DEF Ids
  <2>2. PICK s \in ToSet(reports) : s.report_id = r.report_id
    BY <2>1 DEF Ids
  <2>3. QED BY <1>1, <2>2 DEF IdsIdentify
<1>3. QED BY <1>1, <1>2

(* The addresses of lines are those of the records they stand for.         *)
LEMMA LinesAddresses ==
  ASSUME NEW R \in SUBSET Reports
  PROVE  {RecordAt(l).source_ip : l \in Lines(R)} = Ips(R)
<1>1. ASSUME NEW l \in Lines(R) PROVE RecordAt(l).source_ip \in Ips(R)
  <2>1. PICK r \in R : \E i \in DOMAIN r.records : l = <<r, i>>
    BY DEF Lines
  <2>2. PICK i \in DOMAIN r.records : l = <<r, i>>
    BY <2>1
  <2>3. RecordAt(l) = r.records[i] /\ r.records[i] \in ToSet(r.records)
    BY <2>2 DEF RecordAt, ToSet
  <2>4. RecordAt(l) \in Recs(R)
    BY <2>3 DEF Recs
  <2>5. QED BY <2>4 DEF Ips
<1>2. ASSUME NEW rec \in Recs(R) PROVE \E l \in Lines(R) : RecordAt(l) = rec
  <2>1. PICK r \in R : rec \in ToSet(r.records)
    BY DEF Recs
  <2>2. PICK i \in DOMAIN r.records : r.records[i] = rec
    BY <2>1 DEF ToSet
  <2>3. <<r, i>> \in Lines(R) /\ RecordAt(<<r, i>>) = rec
    BY <2>2 DEF Lines, RecordAt
  <2>4. QED BY <2>3
<1>3. ASSUME NEW ip \in Ips(R) PROVE ip \in {RecordAt(l).source_ip : l \in Lines(R)}
  <2>1. PICK rec \in Recs(R) : rec.source_ip = ip
    BY DEF Ips
  <2>2. QED BY <1>2, <2>1
<1>4. QED BY <1>1, <1>3

(* rollup_dir(): the rollup is that of the reports in the directory,       *)
(* whatever the order in which its entries come and however often a report *)
(* is among them.                                                          *)
THEOREM RollupOfTheDirectory == Spec => []RollupIsOfTheDirectory
<1>1. ASSUME IInv, rollup # << >>, IdsIdentify
      PROVE  RollupIsOfTheDirectory
  <2> DEFINE R == rollup[1]
             H == ToSet(reports)
             L == Lines(Own(H))
  <2>1. RollupIs(R, reports) /\ \A ip \in DOMAIN R.by_ip : RowOf(R.by_ip[ip], L, ip)
    BY <1>1, FinishedIs
  <2>2. H = Held /\ H \in SUBSET Reports
    <3>1. reports \in Seq(Reports) /\ pending = {}
      BY <1>1 DEF IInv, Collected, OncePerId, Kept
    <3>2. H \in SUBSET Reports
      BY <3>1, LenProperties DEF ToSet
    <3>3. QED BY <1>1, <3>1, <3>2, KeptAreHeld
  <2>3. TablesOf(R, L) /\ DOMAIN R.by_org = Orgs(H)
    BY <2>1 DEF RollupIs
  <2>4. {RecordAt(l).source_ip : l \in L} = Ips(Own(H))
    <3>1. Own(H) \in SUBSET Reports
      BY <2>2 DEF Own
    <3>2. QED BY <3>1, LinesAddresses
  <2> HIDE DEF R, L, H
  <2>5. DOMAIN R.by_ip = Ips(Own(H))
    BY <2>3, <2>4 DEF TablesOf
  <2>6. \A ip \in DOMAIN R.by_ip :
          /\ R.by_ip[ip].messages = Sum(L, OfIp(ip))
          /\ R.by_ip[ip].dkim_aligned = Sum(L, OfIp(ip) \cap DkimAligned)
          /\ R.by_ip[ip].spf_aligned = Sum(L, OfIp(ip) \cap SpfAligned)
    BY <2>1 DEF RowOf
  <2>7. R.messages_aligned = Sum(L, DkimAligned \cup SpfAligned) /\ R.records_seen = Cardinality(L)
    BY <2>3 DEF TablesOf
  <2>8. L = Lines(Own(Held)) /\ Ips(Own(H)) = Ips(Own(Held)) /\ Orgs(H) = Orgs(Held)
    BY <2>2 DEF L
  <2>9. QED BY <2>3, <2>5, <2>6, <2>7, <2>8 DEF R, RollupIsOfTheDirectory
<1>2. IInv => RollupIsOfTheDirectory
  BY <1>1 DEF RollupIsOfTheDirectory
<1>3. QED BY <1>2, ReportsAreOncePerId, PTL

------------------------------------------------------------------------------
(* The parser.                                                             *)

(* A node, and one with a child more.                                      *)
IsNode(n) ==
  n = [tag |-> n.tag, text |-> n.text, kids |-> n.kids] /\ n.kids \in Seq(ToSet(n.kids))
Grown(n, k) == [n EXCEPT !.kids = Append(@, k)]

(* A node that is written as a record is one.                              *)
LEMMA NodeShape ==
  ASSUME NEW tag
  PROVE  /\ IsNode(Node(tag)) /\ Node(tag).tag = tag /\ Node(tag).text = NoText
         /\ Node(tag).kids = << >>
<1>1. << >> \in Seq(ToSet(<< >>))
  BY EmptySeq
<1>2. QED BY <1>1 DEF IsNode, Node

LEMMA GrownShape ==
  ASSUME NEW n, IsNode(n), NEW k
  PROVE  /\ IsNode(Grown(n, k)) /\ Grown(n, k).tag = n.tag /\ Grown(n, k).text = n.text
         /\ Grown(n, k).kids = Append(n.kids, k) /\ ToSet(Grown(n, k).kids) = ToSet(n.kids) \cup {k}
<1> DEFINE E == ToSet(n.kids)
           m == Grown(n, k)
<1>1. n.kids \in Seq(E) /\ n.kids \in Seq(E \cup {k})
  BY SeqMonotonic DEF IsNode
<1>2. /\ m = [tag |-> n.tag, text |-> n.text, kids |-> Append(n.kids, k)]
      /\ m.tag = n.tag /\ m.text = n.text /\ m.kids = Append(n.kids, k)
  <2>1. \A t, x, ks : [[tag |-> t, text |-> x, kids |-> ks] EXCEPT !.kids = Append(@, k)]
                        = [tag |-> t, text |-> x, kids |-> Append(ks, k)]
    OBVIOUS
  <2>2. Grown(n, k) = [[tag |-> n.tag, text |-> n.text, kids |-> n.kids] EXCEPT !.kids = Append(@, k)]
    BY DEF Grown, IsNode
  <2>3. QED BY <2>1, <2>2
<1> HIDE DEF m
<1> DEFINE o == << k >>
<1>3. o \in Seq(E \cup {k}) /\ Append(n.kids, k) = n.kids \o o /\ ToSet(o) = {k}
  BY <1>1, AppendIsConcat DEF ToSet
<1> HIDE DEF o, E
<1>4. ToSet(m.kids) = E \cup {k}
  <2>1. ToSet(n.kids \o o) = ToSet(n.kids) \cup ToSet(o)
    BY <1>1, <1>3, ToSetConcat
  <2>2. QED BY <1>2, <1>3, <2>1 DEF E
<1>5. m.kids \in Seq(E \cup {k})
  BY <1>1, <1>2, AppendProperties
<1>6. QED BY <1>2, <1>4, <1>5 DEF IsNode, m, E

(* The children of a name, of a node with none and of one with one more.   *)
LEMMA NamedNone ==
  ASSUME NEW n, NEW tag, n.kids = << >>
  PROVE  Named(n, tag) = << >>
<1> DEFINE s == [i \in DOMAIN n.kids |-> IF n.kids[i].tag = tag THEN <<n.kids[i]>> ELSE << >>]
<1>1. s = << >> /\ << >> \in Seq(Seq({})) /\ Len(<< >>) = 0
  OBVIOUS
<1>2. QED BY <1>1, FlattenForm DEF Named

LEMMA NamedGrown ==
  ASSUME NEW n, IsNode(n), NEW k, NEW tag
  PROVE  /\ Named(Grown(n, k), tag) = IF k.tag = tag THEN Append(Named(n, tag), k) ELSE Named(n, tag)
         /\ Named(n, tag) \in Seq(ToSet(n.kids))
<1> DEFINE E == ToSet(n.kids) \cup {k}
           one(x) == IF x.tag = tag THEN <<x>> ELSE << >>
           of(s) == [i \in DOMAIN s |-> one(s[i])]
<1>0. n.kids \in Seq(ToSet(n.kids)) /\ n.kids \in Seq(E) /\ k \in E
  BY SeqMonotonic DEF IsNode
<1>1. /\ Named(n, tag) = FlattenSeq(of(n.kids))
      /\ Named(Grown(n, k), tag) = FlattenSeq(of(Append(n.kids, k)))
  <2>1. \A m : Named(m, tag) = FlattenSeq(of(m.kids))
    BY DEF Named
  <2>2. Grown(n, k).kids = Append(n.kids, k)
    BY GrownShape
  <2> HIDE DEF of, E
  <2>3. Named(Grown(n, k), tag) = FlattenSeq(of(Grown(n, k).kids))
    BY <2>1
  <2>4. QED BY <2>1, <2>2, <2>3
<1>2. ASSUME NEW F, NEW s \in Seq(F)
      PROVE  of(s) \in Seq(Seq(F))
  <2>1. Len(s) \in Nat /\ DOMAIN s = 1..Len(s) /\ \A i \in 1..Len(s) : s[i] \in F
    BY LenProperties
  <2>2. \A x \in F : one(x) \in Seq(F)
    OBVIOUS
  <2>3. QED BY <2>1, <2>2, IsASeq
<1>3. of(n.kids) \in Seq(Seq(ToSet(n.kids))) /\ of(n.kids) \in Seq(Seq(E)) /\ one(k) \in Seq(E)
  <2>1. << >> \in Seq(E) /\ << k >> \in Seq(E)
    BY <1>0, EmptySeq
  <2>2. one(k) \in Seq(E)
    BY <2>1
  <2> HIDE DEF of, one
  <2>3. QED BY <1>0, <1>2, <2>2
<1>4. of(Append(n.kids, k)) = Append(of(n.kids), one(k))
  <2>1. /\ Len(n.kids) \in Nat /\ DOMAIN n.kids = 1..Len(n.kids)
        /\ Append(n.kids, k) \in Seq(E) /\ Len(Append(n.kids, k)) = Len(n.kids) + 1
        /\ \A i \in 1..Len(n.kids) : Append(n.kids, k)[i] = n.kids[i]
        /\ Append(n.kids, k)[Len(n.kids) + 1] = k
    BY <1>0, LenProperties, AppendProperties
  <2> DEFINE a == of(Append(n.kids, k))
             b == Append(of(n.kids), one(k))
  <2>2. /\ a \in Seq(Seq(E)) /\ Len(a) = Len(n.kids) + 1
        /\ \A i \in 1..Len(n.kids) : a[i] = one(n.kids[i])
        /\ a[Len(n.kids) + 1] = one(k)
    <3>1. a \in Seq(Seq(E))
      BY <2>1, <1>2
    <3>2. DOMAIN a = 1..(Len(n.kids) + 1) /\ \A i \in 1..(Len(n.kids) + 1) : a[i] = one(Append(n.kids, k)[i])
      BY <2>1, LenProperties
    <3>3. Len(a) = Len(n.kids) + 1
      BY <3>1, <3>2, <2>1, LenProperties
    <3>4. \A i \in 1..Len(n.kids) : i \in 1..(Len(n.kids) + 1)
      BY <2>1
    <3>5. Len(n.kids) + 1 \in 1..(Len(n.kids) + 1)
      BY <2>1
    <3> HIDE DEF a, one
    <3>6. QED BY <2>1, <3>1, <3>2, <3>3, <3>4, <3>5
  <2>3. /\ b \in Seq(Seq(E)) /\ Len(b) = Len(n.kids) + 1
        /\ \A i \in 1..Len(n.kids) : b[i] = one(n.kids[i])
        /\ b[Len(n.kids) + 1] = one(k)
    <3> DEFINE c == of(n.kids)
    <3>1. DOMAIN c = 1..Len(n.kids) /\ \A i \in 1..Len(n.kids) : c[i] = one(n.kids[i])
      BY <2>1
    <3>2. c \in Seq(Seq(E)) /\ one(k) \in Seq(E) /\ Len(c) = Len(n.kids)
      BY <1>3, <3>1, <2>1, LenProperties
    <3>3. b = Append(c, one(k))
      OBVIOUS
    <3> DEFINE o == one(k)
    <3>4. o = one(k)
      OBVIOUS
    <3> HIDE DEF c, b, one, o, E
    <3>5. /\ Append(c, o) \in Seq(Seq(E)) /\ Len(Append(c, o)) = Len(c) + 1
          /\ \A i \in 1..Len(c) : Append(c, o)[i] = c[i]
          /\ Append(c, o)[Len(c) + 1] = o
      BY <3>2, <3>4, AppendProperties
    <3>6. QED BY <3>1, <3>2, <3>3, <3>4, <3>5
  <2> HIDE DEF a, b, one
  <2>4. a = b
    <3>1. ASSUME NEW i \in 1..(Len(n.kids) + 1)
          PROVE  a[i] = b[i]
      <4>1. i \in 1..Len(n.kids) \/ i = Len(n.kids) + 1
        BY <2>1
      <4>2. QED BY <4>1, <2>2, <2>3
    <3>2. QED BY <3>1, <2>2, <2>3, SeqEqual
  <2>5. QED BY <2>4 DEF a, b
<1> HIDE DEF of, one
<1>5. FlattenSeq(Append(of(n.kids), one(k))) = FlattenSeq(of(n.kids)) \o one(k)
  BY <1>3, FlattenAppend
<1>6. Named(n, tag) \in Seq(ToSet(n.kids)) /\ Named(n, tag) \in Seq(E)
  BY <1>1, <1>3, FlattenTyped
<1>7. Named(n, tag) \o << k >> = Append(Named(n, tag), k) /\ Named(n, tag) \o << >> = Named(n, tag)
  BY <1>0, <1>6, AppendIsConcat, ConcatEmptySeq
<1>8. QED BY <1>1, <1>4, <1>5, <1>6, <1>7 DEF one

(* The child of a name: the last of them.                                  *)
LEMMA ChildNone ==
  ASSUME NEW n, NEW tag, n.kids = << >>
  PROVE  Child(n, tag) = Node("absent")
BY NamedNone DEF Child

LEMMA ChildGrown ==
  ASSUME NEW n, IsNode(n), NEW k, NEW tag
  PROVE  Child(Grown(n, k), tag) = IF k.tag = tag THEN k ELSE Child(n, tag)
<1> DEFINE s == Named(n, tag)
<1>1. s \in Seq(ToSet(n.kids) \cup {k})
  BY NamedGrown, SeqMonotonic
<1>2. Append(s, k) # << >> /\ Last(Append(s, k)) = k
  BY <1>1, AppendProperties DEF Last
<1>3. CASE k.tag = tag
  <2>1. Named(Grown(n, k), tag) = Append(s, k)
    BY <1>3, NamedGrown
  <2>2. QED BY <1>2, <1>3, <2>1 DEF Child
<1>4. CASE k.tag # tag
  <2>1. Named(Grown(n, k), tag) = s
    BY <1>4, NamedGrown
  <2>2. QED BY <1>4, <2>1 DEF Child
<1>5. QED BY <1>3, <1>4

(* A child that none of the children is called.                            *)
LEMMA ChildFresh ==
  ASSUME NEW n, IsNode(n), NEW tag, \A k \in ToSet(n.kids) : k.tag # tag
  PROVE  Child(n, tag) = Node("absent")
<1> DEFINE s == [i \in DOMAIN n.kids |-> IF n.kids[i].tag = tag THEN <<n.kids[i]>> ELSE << >>]
<1>1. n.kids \in Seq(ToSet(n.kids)) /\ \A i \in DOMAIN n.kids : n.kids[i] \in ToSet(n.kids)
  BY DEF IsNode, ToSet
<1>2. s = [i \in DOMAIN n.kids |-> << >>]
  BY <1>1
<1>3. Len(n.kids) \in Nat /\ DOMAIN n.kids = 1..Len(n.kids)
  BY <1>1, LenProperties
<1>4. s \in Seq(Seq({}))
  <2>1. << >> \in Seq({})
    OBVIOUS
  <2>2. QED BY <1>2, <1>3, <2>1, IsASeq
<1>5. FlattenSeq(s) \in Seq({})
  BY <1>4, FlattenTyped
<1>6. FlattenSeq(s) = << >>
  <2>1. Len(FlattenSeq(s)) = 0
    BY <1>5, ElementOfSeq, LenProperties
  <2>2. QED BY <1>5, <2>1, EmptySeq
<1>7. QED BY <1>6 DEF Child, Named

------------------------------------------------------------------------------
(* The schema's elements by their depth: the nodes of d, from the root to  *)
(* the open element.                                                       *)
Open(d, i, tag) == Len(d) >= i /\ d[i].tag = tag

Levels(d) ==
  /\ d[1].tag = "document"
  /\ Len(d) >= 2 => d[2].tag = "feedback"
  /\ Len(d) >= 3 => d[3].tag \in {"report_metadata", "policy_published", "record"}
  /\ Len(d) >= 4 =>
       \/ d[3].tag = "report_metadata" /\ d[4].tag \in {"org_name", "report_id", "date_range"}
       \/ d[3].tag = "policy_published" /\ d[4].tag \in {"domain", "p"}
       \/ d[3].tag = "record" /\ d[4].tag \in {"row", "identifiers", "auth_results"}
  /\ Len(d) >= 5 =>
       \/ d[4].tag = "date_range" /\ d[5].tag = "begin"
       \/ d[4].tag = "row" /\ d[5].tag \in {"source_ip", "count", "policy_evaluated"}
       \/ d[4].tag = "identifiers" /\ d[5].tag = "header_from"
       \/ d[4].tag = "auth_results" /\ d[5].tag \in {"dkim", "spf"}
  /\ Len(d) >= 6 =>
       \/ d[5].tag = "policy_evaluated" /\ d[6].tag \in {"disposition", "dkim", "spf"}
       \/ d[5].tag \in {"dkim", "spf"} /\ d[6].tag \in {"domain", "result"}

Shape(d) ==
  /\ d \in Seq(ToSet(d)) /\ Len(d) \in 1..6 /\ Levels(d)
  /\ \A i \in 1..Len(d) : IsNode(d[i])

(* The schema's children are its names, each once.                         *)
LEMMA SchemaNames ==
  ASSUME NEW p
  PROVE  /\ ToSet(Schema("document", p)) = {"feedback"}
         /\ ToSet(Schema("feedback", p)) = {"report_metadata", "policy_published", "record"}
         /\ ToSet(Schema("report_metadata", p)) = {"org_name", "report_id", "date_range"}
         /\ ToSet(Schema("date_range", p)) = {"begin"}
         /\ ToSet(Schema("policy_published", p)) = {"domain", "p"}
         /\ ToSet(Schema("record", p)) = {"row", "identifiers", "auth_results"}
         /\ ToSet(Schema("row", p)) = {"source_ip", "count", "policy_evaluated"}
         /\ ToSet(Schema("policy_evaluated", p)) = {"disposition", "dkim", "spf"}
         /\ ToSet(Schema("identifiers", p)) = {"header_from"}
         /\ ToSet(Schema("auth_results", p)) = {"dkim", "spf"}
         /\ \A t \in {"dkim", "spf"} :
              ToSet(Schema(t, p)) = IF p = "auth_results" THEN {"domain", "result"} ELSE {}
         /\ \A t \in {"org_name", "report_id", "begin", "domain", "p", "source_ip", "count",
                      "disposition", "header_from", "result"} : Schema(t, p) = << >>
<1>1. /\ \A a : ToSet(<< a >>) = {a}
      /\ \A a, b : ToSet(<< a, b >>) = {a, b}
      /\ \A a, b, c : ToSet(<< a, b, c >>) = {a, b, c}
      /\ ToSet(<< >>) = {}
  <2>1. \A a : DOMAIN << a >> = {1} /\ << a >>[1] = a
    OBVIOUS
  <2>2. \A a, b : DOMAIN << a, b >> = {1, 2} /\ << a, b >>[1] = a /\ << a, b >>[2] = b
    OBVIOUS
  <2>3. \A a, b, c : /\ DOMAIN << a, b, c >> = {1, 2, 3}
                     /\ << a, b, c >>[1] = a /\ << a, b, c >>[2] = b /\ << a, b, c >>[3] = c
    OBVIOUS
  <2>4. \A a : ToSet(<< a >>) = {a}
    BY <2>1 DEF ToSet
  <2>5. \A a, b : ToSet(<< a, b >>) = {a, b}
    BY <2>2 DEF ToSet
  <2>6. \A a, b, c : ToSet(<< a, b, c >>) = {a, b, c}
    BY <2>3 DEF ToSet
  <2>7. ToSet(<< >>) = {}
    BY DEF ToSet
  <2>8. QED BY <2>4, <2>5, <2>6, <2>7
<1>2. /\ Schema("document", p) = <<"feedback">>
      /\ Schema("feedback", p) = <<"report_metadata", "policy_published", "record">>
      /\ Schema("report_metadata", p) = <<"org_name", "report_id", "date_range">>
      /\ Schema("date_range", p) = <<"begin">>
      /\ Schema("policy_published", p) = <<"domain", "p">>
      /\ Schema("record", p) = <<"row", "identifiers", "auth_results">>
      /\ Schema("row", p) = <<"source_ip", "count", "policy_evaluated">>
      /\ Schema("policy_evaluated", p) = <<"disposition", "dkim", "spf">>
      /\ Schema("identifiers", p) = <<"header_from">>
      /\ Schema("auth_results", p) = <<"dkim", "spf">>
  BY DEF Schema
<1>3. /\ \A t \in {"dkim", "spf"} :
           Schema(t, p) = IF p = "auth_results" THEN <<"domain", "result">> ELSE << >>
      /\ \A t \in {"org_name", "report_id", "begin", "domain", "p", "source_ip", "count",
                   "disposition", "header_from", "result"} : Schema(t, p) = << >>
  BY DEF Schema
<1>4. QED BY <1>1, <1>2, <1>3

LEMMA SchemaOnce ==
  ASSUME NEW t, NEW p
  PROVE  \A i, j \in DOMAIN Schema(t, p) : Schema(t, p)[i] = Schema(t, p)[j] => i = j
<1>1. \A a : \A i, j \in DOMAIN << a >> : i = j
  OBVIOUS
<1>2. \A a, b : a # b => \A i, j \in DOMAIN << a, b >> : << a, b >>[i] = << a, b >>[j] => i = j
  OBVIOUS
<1>3. \A a, b, c : a # b /\ a # c /\ b # c =>
        \A i, j \in DOMAIN << a, b, c >> : << a, b, c >>[i] = << a, b, c >>[j] => i = j
  OBVIOUS
<1>4. \A i, j \in DOMAIN << >> : i = j
  OBVIOUS
<1> DEFINE s == Schema(t, p)
<1>5. \/ s = << >>
      \/ s = <<"feedback">> \/ s = <<"report_metadata", "policy_published", "record">>
      \/ s = <<"org_name", "report_id", "date_range">> \/ s = <<"begin">> \/ s = <<"domain", "p">>
      \/ s = <<"row", "identifiers", "auth_results">>
      \/ s = <<"source_ip", "count", "policy_evaluated">> \/ s = <<"disposition", "dkim", "spf">>
      \/ s = <<"header_from">> \/ s = <<"dkim", "spf">> \/ s = <<"domain", "result">>
  BY DEF Schema
<1> HIDE DEF s
<1>6. \A i, j \in DOMAIN s : s[i] = s[j] => i = j
  BY <1>1, <1>2, <1>3, <1>4, <1>5
<1>7. QED BY <1>6 DEF s

(* What may be started: a child of the schema, and not twice but for what  *)
(* repeats.                                                                *)
LEMMA StartTag ==
  ASSUME NEW tag \in MayStart
  PROVE  /\ tag \in ToSet(Content)
         /\ ~Repeats(tag, Top.tag) => \A k \in ToSet(Top.kids) : k.tag # tag
<1>1. PICK j \in DOMAIN Content :
        /\ tag = Content[j]
        /\ \A k \in ToSet(Top.kids) :
             \E i \in 1..j : Content[i] = k.tag /\ (i = j => Repeats(k.tag, Top.tag))
  BY DEF MayStart
<1>2. tag \in ToSet(Content)
  BY <1>1 DEF ToSet
<1>3. ASSUME ~Repeats(tag, Top.tag), NEW k \in ToSet(Top.kids), k.tag = tag
      PROVE  FALSE
  <2>1. PICK i \in 1..j : Content[i] = tag /\ (i = j => Repeats(tag, Top.tag))
    BY <1>1, <1>3
  <2>2. i = j
    <3>1. DOMAIN Content \in SUBSET Nat /\ \A x \in DOMAIN Content : 1..x \subseteq DOMAIN Content
      <4> DEFINE s == Schema(Top.tag, ParentTag)
      <4>1. \E n \in 0..3 : DOMAIN s = 1..n
        <5>1. /\ \A a : DOMAIN << a >> = 1..1
              /\ \A a, b : DOMAIN << a, b >> = 1..2
              /\ \A a, b, c : DOMAIN << a, b, c >> = 1..3
              /\ DOMAIN << >> = 1..0
          OBVIOUS
        <5>2. \/ s = << >> \/ (\E a : s = << a >>) \/ (\E a, b : s = << a, b >>)
              \/ \E a, b, c : s = << a, b, c >>
          BY DEF Schema
        <5> HIDE DEF s
        <5>3. QED BY <5>1, <5>2
      <4> HIDE DEF s
      <4>2. DOMAIN s \in SUBSET Nat /\ \A x \in DOMAIN s : 1..x \subseteq DOMAIN s
        BY <4>1
      <4>3. QED BY <4>2 DEF s, Content
    <3>2. i \in DOMAIN Content
      BY <3>1, <1>1
    <3>3. QED BY <1>1, <2>1, <3>2, SchemaOnce DEF Content
  <2>3. QED BY <1>3, <2>1, <2>2
<1>4. QED BY <1>2, <1>3

(* The document, one element further in: d and the new node.               *)
LEMMA Started ==
  ASSUME NEW d, d \in Seq(ToSet(d)), NEW n
  PROVE  /\ Append(d, n) \in Seq(ToSet(Append(d, n))) /\ Len(Append(d, n)) = Len(d) + 1
         /\ \A i \in 1..Len(d) : Append(d, n)[i] = d[i]
         /\ Append(d, n)[Len(d) + 1] = n
<1> DEFINE E == ToSet(d) \cup {n}
<1>1. d \in Seq(E) /\ n \in E
  BY SeqMonotonic
<1>2. /\ Append(d, n) \in Seq(E) /\ Len(Append(d, n)) = Len(d) + 1 /\ Len(d) \in Nat
      /\ \A i \in 1..Len(d) : Append(d, n)[i] = d[i]
      /\ Append(d, n)[Len(d) + 1] = n
  BY <1>1, AppendProperties, LenProperties
<1> HIDE DEF E
<1>3. \A i \in 1..Len(Append(d, n)) : Append(d, n)[i] \in ToSet(Append(d, n))
  BY <1>2, LenProperties DEF ToSet
<1>4. Append(d, n) \in Seq(ToSet(Append(d, n)))
  BY <1>2, <1>3, LenProperties, IsASeq
<1>5. QED BY <1>2, <1>4

(* A start tag keeps the document to the schema.                           *)
LEMMA StartShape ==
  ASSUME Shape(dom), NEW tag \in MayStart
  PROVE  Shape(Append(dom, Node(tag))) /\ Content # << >>
<1> DEFINE e == Append(dom, Node(tag))
<1>1. /\ e \in Seq(ToSet(e)) /\ Len(e) = Len(dom) + 1
      /\ \A i \in 1..Len(dom) : e[i] = dom[i]
      /\ e[Len(dom) + 1] = Node(tag)
  BY Started DEF Shape
<1>2. Len(dom) \in 1..6 /\ Levels(dom)
  BY DEF Shape
<1> HIDE DEF e
<1>3. tag \in ToSet(Schema(dom[Len(dom)].tag, ParentTag)) /\ ToSet(<< >>) = {}
  BY StartTag DEF Content, Top, Last, ToSet
<1>4. Node(tag).tag = tag
  BY NodeShape
<1>5. Len(e) \in 1..6 /\ Levels(e)
  <2>1. CASE Len(dom) = 1
    BY <2>1, <1>1, <1>2, <1>3, <1>4, SchemaNames DEF Levels
  <2>2. CASE Len(dom) = 2
    BY <2>2, <1>1, <1>2, <1>3, <1>4, SchemaNames DEF Levels
  <2>3. CASE Len(dom) = 3
    BY <2>3, <1>1, <1>2, <1>3, <1>4, SchemaNames DEF Levels
  <2>4. CASE Len(dom) = 4
    BY <2>4, <1>1, <1>2, <1>3, <1>4, SchemaNames DEF Levels
  <2>5. CASE Len(dom) = 5
    <3>1. ParentTag = dom[4].tag
      BY <2>5 DEF ParentTag
    <3>2. QED BY <2>5, <3>1, <1>1, <1>2, <1>3, <1>4, SchemaNames DEF Levels
  <2>6. CASE Len(dom) = 6
    <3>1. ParentTag = dom[5].tag
      BY <2>6 DEF ParentTag
    <3>2. QED BY <2>6, <3>1, <1>1, <1>2, <1>3, <1>4, SchemaNames DEF Levels
  <2>7. QED BY <1>2, <2>1, <2>2, <2>3, <2>4, <2>5, <2>6
<1>6. \A i \in 1..Len(e) : IsNode(e[i])
  <2>1. ASSUME NEW i \in 1..Len(e)
        PROVE  IsNode(e[i])
    <3>1. i \in 1..Len(dom) \/ i = Len(dom) + 1
      BY <1>1, <1>2
    <3>2. QED BY <3>1, <1>1, NodeShape DEF Shape
  <2>2. QED BY <2>1
<1>7. QED BY <1>1, <1>3, <1>5, <1>6 DEF Shape, Content, Top, Last, e

(* One element out: it becomes a child of the one around it.               *)
Ended(d) == [Front(d) EXCEPT ![Len(d) - 1].kids = Append(@, d[Len(d)])]

(* An end tag keeps the document to the schema.                            *)
LEMMA EndShape ==
  ASSUME NEW d, Shape(d), Len(d) > 1
  PROVE  /\ Shape(Ended(d)) /\ Len(Ended(d)) = Len(d) - 1
         /\ \A i \in 1..(Len(d) - 2) : Ended(d)[i] = d[i]
         /\ Ended(d)[Len(d) - 1] = Grown(d[Len(d) - 1], d[Len(d)])
<1> DEFINE n == Len(d) - 1
           e == Ended(d)
           f == Front(d)
           g == Grown(d[n], d[Len(d)])
<1>1. Len(d) \in Nat /\ n \in Nat /\ n >= 1 /\ Len(d) = n + 1 /\ n <= 5 /\ Len(d) \in 2..6
  BY DEF Shape
<1>2. /\ f \in Seq(ToSet(d)) /\ Len(f) = n /\ \A i \in 1..n : f[i] = d[i]
  BY <1>1, SubSeqProperties DEF Front, Shape
<1>3. DOMAIN f = 1..n /\ f = [i \in 1..n |-> f[i]]
  BY <1>2, LenProperties
<1>4. e = [i \in 1..n |-> IF i = n THEN g ELSE f[i]]
  <2>1. e = [f EXCEPT ![n] = [f[n] EXCEPT !.kids = Append(f[n].kids, d[Len(d)])]]
    BY DEF Ended
  <2>2. f[n] = d[n] /\ n \in 1..n
    BY <1>1, <1>2
  <2>3. g = [f[n] EXCEPT !.kids = Append(f[n].kids, d[Len(d)])]
    BY <2>2 DEF Grown
  <2> HIDE DEF e, f, g, n
  <2>4. QED BY <2>1, <2>3, <1>3
<1> HIDE DEF e, f
<1>5. e \in Seq(ToSet(e)) /\ Len(e) = n
  <2>1. DOMAIN e = 1..n /\ \A i \in 1..n : e[i] \in ToSet(e)
    BY <1>4 DEF ToSet
  <2> HIDE DEF g, n
  <2>2. e = [i \in 1..n |-> e[i]]
    BY <1>4
  <2>3. e \in Seq(ToSet(e))
    BY <2>1, <2>2, <1>1, IsASeq
  <2>4. QED BY <2>1, <2>3, <1>1, LenProperties
<1>6. (\A i \in 1..(n - 1) : e[i] = d[i]) /\ e[n] = g
  <2> HIDE DEF g, n
  <2>1. QED BY <1>1, <1>2, <1>4
<1>7. /\ \A i \in 1..n : IsNode(e[i]) /\ e[i].tag = d[i].tag
  <2>1. IsNode(d[n]) /\ IsNode(g) /\ g.tag = d[n].tag
    BY <1>1, GrownShape DEF Shape
  <2> HIDE DEF g, n
  <2>2. ASSUME NEW i \in 1..n
        PROVE  IsNode(e[i]) /\ e[i].tag = d[i].tag
    <3>1. i = n \/ i \in 1..(n - 1)
      BY <1>1
    <3>2. i \in 1..Len(d)
      BY <1>1
    <3>3. QED BY <2>1, <3>1, <3>2, <1>6 DEF Shape
  <2>3. QED BY <2>2
<1>8. Levels(e)
  <2>1. Levels(d)
    BY DEF Shape
  <2>2. \A i \in 1..5 : Len(e) >= i => i \in 1..n /\ Len(d) >= i /\ e[i].tag = d[i].tag
    BY <1>1, <1>5, <1>7
  <2>3. 1 <= Len(e) /\ Len(e) <= 5
    BY <1>1, <1>5
  <2> HIDE DEF n
  <2>4. /\ e[1].tag = d[1].tag
        /\ Len(e) >= 2 => Len(d) >= 2 /\ e[2].tag = d[2].tag
        /\ Len(e) >= 3 => Len(d) >= 3 /\ e[3].tag = d[3].tag
        /\ Len(e) >= 4 => Len(d) >= 4 /\ e[4].tag = d[4].tag
        /\ Len(e) >= 5 => Len(d) >= 5 /\ e[5].tag = d[5].tag
        /\ ~(Len(e) >= 6) /\ (Len(e) >= 5 => Len(e) >= 4) /\ (Len(e) >= 4 => Len(e) >= 3)
    BY <2>2, <2>3
  <2>5. QED BY <2>1, <2>4 DEF Levels
<1>9. n \in 1..6
  BY <1>1
<1>10. Shape(e)
  BY <1>5, <1>7, <1>8, <1>9 DEF Shape
<1>11. n - 1 = Len(d) - 2
  BY <1>1
<1>12. QED BY <1>5, <1>6, <1>10, <1>11 DEF e

(* The parts of a report: the open element of a name, or the child of the  *)
(* part around it that has it.                                             *)
InPart(d, i, tag, p) == IF Open(d, i, tag) THEN d[i] ELSE Child(p, tag)

Feedback(d) == InPart(d, 2, "feedback", d[1])
Metadata(d) == InPart(d, 3, "report_metadata", Feedback(d))
Dates(d)    == InPart(d, 4, "date_range", Metadata(d))
Policy(d)   == InPart(d, 3, "policy_published", Feedback(d))
Row(d)         == InPart(d, 4, "row", d[3])
Evaluated(d)   == InPart(d, 5, "policy_evaluated", Row(d))
Identifiers(d) == InPart(d, 4, "identifiers", d[3])
Auth(d)        == InPart(d, 4, "auth_results", d[3])

(* What of a node a new element leaves alone.                              *)
LEMMA PartStart ==
  ASSUME NEW d, NEW e, NEW tag, NEW i \in 1..6, NEW t, NEW p, NEW q,
         Shape(d), Len(e) = Len(d) + 1, e[Len(d) + 1] = Node(tag),
         \A j \in 1..Len(d) : e[j] = d[j],
         p.kids = q.kids,
         i = Len(d) + 1 /\ t = tag => p = d[Len(d)] /\ Child(p, tag) = Node("absent")
  PROVE  InPart(e, i, t, q).kids = InPart(d, i, t, p).kids
<1>1. Len(d) \in 1..6
  BY DEF Shape
<1>2. \A x : Named(p, x) = Named(q, x)
  BY DEF Named
<1>3. Child(p, t) = Child(q, t)
  BY <1>2 DEF Child
<1>4. CASE Len(d) >= i
  <2>1. e[i] = d[i] /\ Len(e) >= i
    BY <1>1, <1>4
  <2>2. QED BY <1>3, <1>4, <2>1 DEF InPart, Open
<1>5. CASE Len(d) + 1 = i
  <2>1. e[i] = Node(tag) /\ Len(e) >= i /\ ~(Len(d) >= i)
    BY <1>1, <1>5
  <2>2. Node(tag).tag = tag /\ Node(tag).kids = << >> /\ Node("absent").kids = << >>
    BY NodeShape
  <2>3. CASE t = tag
    BY <1>5, <2>1, <2>2, <2>3 DEF InPart, Open
  <2>4. CASE t # tag
    BY <1>3, <2>1, <2>2, <2>4 DEF InPart, Open
  <2>5. QED BY <2>3, <2>4
<1>6. CASE i > Len(d) + 1
  <2>1. ~(Len(d) >= i) /\ ~(Len(e) >= i)
    BY <1>1, <1>6
  <2>2. QED BY <1>3, <2>1 DEF InPart, Open
<1>7. QED BY <1>1, <1>4, <1>5, <1>6

Parts(d) == <<Feedback(d).kids, Metadata(d).kids, Dates(d).kids, Policy(d).kids>>
RecordParts(d) == <<Row(d).kids, Evaluated(d).kids, Identifiers(d).kids, Auth(d).kids>>

(* A new element adds nothing to any part.                                 *)
LEMMA StartParts ==
  ASSUME NEW d, NEW e, NEW tag, Shape(d), Shape(e), Len(e) = Len(d) + 1, e[Len(d) + 1] = Node(tag),
         \A j \in 1..Len(d) : e[j] = d[j],
         tag \notin {"record", "dkim", "spf"} => \A k \in ToSet(d[Len(d)].kids) : k.tag # tag
  PROVE  /\ Parts(e) = Parts(d)
         /\ Len(d) >= 3 => RecordParts(e) = RecordParts(d)
<1> DEFINE n == Len(d)
<1>1. n \in 1..6 /\ Levels(d) /\ Levels(e) /\ e[1] = d[1] /\ e[n + 1].tag = tag /\ Len(e) = n + 1
  BY NodeShape DEF Shape
<1>2. tag \notin {"record", "dkim", "spf"} => Child(d[n], tag) = Node("absent")
  <2>1. IsNode(d[n])
    BY <1>1 DEF Shape
  <2>2. QED BY <2>1, ChildFresh
<1>3. Feedback(e).kids = Feedback(d).kids
  <2>1. 2 = n + 1 /\ "feedback" = tag => d[1] = d[n] /\ Child(d[1], tag) = Node("absent")
    BY <1>1, <1>2
  <2>2. QED BY <1>1, <2>1, PartStart DEF Feedback
<1>4. Metadata(e).kids = Metadata(d).kids
  <2>1. 3 = n + 1 /\ "report_metadata" = tag => Feedback(d) = d[n] /\ Child(Feedback(d), tag) = Node("absent")
    BY <1>1, <1>2 DEF Levels, Feedback, InPart, Open
  <2>2. QED BY <1>3, <2>1, PartStart DEF Metadata
<1>5. Dates(e).kids = Dates(d).kids
  <2>1. 4 = n + 1 /\ "date_range" = tag => Metadata(d) = d[n] /\ Child(Metadata(d), tag) = Node("absent")
    BY <1>1, <1>2 DEF Levels, Metadata, InPart, Open
  <2>2. QED BY <1>4, <2>1, PartStart DEF Dates
<1>6. Policy(e).kids = Policy(d).kids
  <2>1. 3 = n + 1 /\ "policy_published" = tag =>
          Feedback(d) = d[n] /\ Child(Feedback(d), tag) = Node("absent")
    BY <1>1, <1>2 DEF Levels, Feedback, InPart, Open
  <2>2. QED BY <1>3, <2>1, PartStart DEF Policy
<1>7. ASSUME n >= 3
      PROVE  RecordParts(e) = RecordParts(d)
  <2>1. e[3] = d[3]
    BY <1>1, <1>7
  <2>2. \A t \in {"row", "identifiers", "auth_results"} :
          4 = n + 1 /\ t = tag => d[3] = d[n] /\ Child(d[3], tag) = Node("absent")
    BY <1>1, <1>2
  <2>3. Row(e).kids = Row(d).kids
    BY <2>1, <2>2, PartStart DEF Row
  <2>4. Identifiers(e).kids = Identifiers(d).kids
    BY <2>1, <2>2, PartStart DEF Identifiers
  <2>5. Auth(e).kids = Auth(d).kids
    BY <2>1, <2>2, PartStart DEF Auth
  <2>6. Evaluated(e).kids = Evaluated(d).kids
    <3>1. 5 = n + 1 /\ "policy_evaluated" = tag => Row(d) = d[n] /\ Child(Row(d), tag) = Node("absent")
      BY <1>1, <1>2 DEF Levels, Row, InPart, Open
    <3>2. QED BY <2>3, <3>1, PartStart DEF Evaluated
  <2>7. QED BY <2>3, <2>4, <2>5, <2>6 DEF RecordParts
<1>8. QED BY <1>3, <1>4, <1>5, <1>6, <1>7 DEF Parts

(* What the end of an element adds, and to which part.                     *)
LEMMA EndParts ==
  ASSUME NEW d, Shape(d), Len(d) > 1, NEW e, e = Ended(d)
  PROVE  LET n == Len(d)
             into(i, t) == n = i + 1 /\ d[i].tag = t
             grown == Grown(d[n - 1], d[n])
         IN  /\ Feedback(e) = IF into(2, "feedback") THEN grown ELSE Feedback(d)
             /\ Metadata(e) = IF into(3, "report_metadata") THEN grown ELSE Metadata(d)
             /\ Dates(e) = IF into(4, "date_range") THEN grown ELSE Dates(d)
             /\ Policy(e) = IF into(3, "policy_published") THEN grown ELSE Policy(d)
             /\ n >= 4 /\ d[3].tag = "record" =>
                  /\ Row(e) = IF into(4, "row") THEN grown ELSE Row(d)
                  /\ Evaluated(e) = IF into(5, "policy_evaluated") THEN grown ELSE Evaluated(d)
                  /\ Identifiers(e) = IF into(4, "identifiers") THEN grown ELSE Identifiers(d)
                  /\ Auth(e) = IF into(4, "auth_results") THEN grown ELSE Auth(d)
<1> DEFINE n == Len(d)
           into(i, t) == n = i + 1 /\ d[i].tag = t
           grown == Grown(d[n - 1], d[n])
<1>1. n \in 2..6 /\ Levels(d) /\ Len(e) = n - 1
  BY EndShape DEF Shape
<1>2. (\A i \in 1..(n - 2) : e[i] = d[i]) /\ e[n - 1] = grown
  BY EndShape
<1>3. IsNode(d[n - 1]) /\ IsNode(d[n])
  BY <1>1 DEF Shape
<1>4. /\ grown.tag = d[n - 1].tag
      /\ \A t : Child(grown, t) = IF d[n].tag = t THEN d[n] ELSE Child(d[n - 1], t)
  BY <1>3, GrownShape, ChildGrown
<1> HIDE DEF n, grown, into
<1>5. Feedback(e) = IF into(2, "feedback") THEN grown ELSE Feedback(d)
  <2>1. CASE n = 2
    BY <2>1, <1>1, <1>2, <1>4 DEF Levels, Feedback, InPart, Open, into, n
  <2>2. CASE n = 3
    BY <2>2, <1>1, <1>2, <1>4 DEF Levels, Feedback, InPart, Open, into, n
  <2>3. CASE n \in 4..6
    <3>1. e[2] = d[2] /\ Len(e) >= 2 /\ n >= 2
      BY <1>1, <1>2, <2>3
    <3>2. QED BY <3>1, <2>3, <1>1 DEF Levels, Feedback, InPart, Open, into, n
  <2>4. QED BY <1>1, <2>1, <2>2, <2>3
<1>6. Metadata(e) = IF into(3, "report_metadata") THEN grown ELSE Metadata(d)
  <2>1. CASE n = 2
    BY <2>1, <1>1, <1>5 DEF Metadata, InPart, Open, into, n
  <2>2. CASE n = 3
    BY <2>2, <1>1, <1>2, <1>4, <1>5 DEF Levels, Feedback, Metadata, InPart, Open, into, n
  <2>3. CASE n = 4
    BY <2>3, <1>1, <1>2, <1>4, <1>5 DEF Metadata, InPart, Open, into, n
  <2>4. CASE n \in 5..6
    <3>1. e[3] = d[3] /\ Len(e) >= 3 /\ n >= 3
      BY <1>1, <1>2, <2>4
    <3>2. Feedback(e) = Feedback(d) /\ n # 4
      BY <2>4, <1>5 DEF into
    <3>3. QED BY <3>1, <3>2 DEF Metadata, InPart, Open, into, n
  <2>5. QED BY <1>1, <2>1, <2>2, <2>3, <2>4
<1>7. Policy(e) = IF into(3, "policy_published") THEN grown ELSE Policy(d)
  <2>1. CASE n = 2
    BY <2>1, <1>1, <1>5 DEF Policy, InPart, Open, into, n
  <2>2. CASE n = 3
    BY <2>2, <1>1, <1>2, <1>4, <1>5 DEF Levels, Feedback, Policy, InPart, Open, into, n
  <2>3. CASE n = 4
    BY <2>3, <1>1, <1>2, <1>4, <1>5 DEF Policy, InPart, Open, into, n
  <2>4. CASE n \in 5..6
    <3>1. e[3] = d[3] /\ Len(e) >= 3 /\ n >= 3
      BY <1>1, <1>2, <2>4
    <3>2. Feedback(e) = Feedback(d) /\ n # 4
      BY <2>4, <1>5 DEF into
    <3>3. QED BY <3>1, <3>2 DEF Policy, InPart, Open, into, n
  <2>5. QED BY <1>1, <2>1, <2>2, <2>3, <2>4
<1>8. Dates(e) = IF into(4, "date_range") THEN grown ELSE Dates(d)
  <2>1. CASE n \in 2..3
    BY <2>1, <1>1, <1>6 DEF Dates, InPart, Open, into, n
  <2>2. CASE n = 4
    BY <2>2, <1>1, <1>2, <1>4, <1>6 DEF Levels, Metadata, Dates, InPart, Open, into, n
  <2>3. CASE n = 5
    BY <2>3, <1>1, <1>2, <1>4, <1>6 DEF Dates, InPart, Open, into, n
  <2>4. CASE n = 6
    <3>1. e[4] = d[4] /\ Len(e) >= 4 /\ n >= 4
      BY <1>1, <1>2, <2>4
    <3>2. QED BY <3>1, <2>4, <1>1, <1>6 DEF Dates, InPart, Open, into, n
  <2>5. QED BY <1>1, <2>1, <2>2, <2>3, <2>4
<1>9. ASSUME n >= 4, d[3].tag = "record"
      PROVE  /\ Row(e) = IF into(4, "row") THEN grown ELSE Row(d)
             /\ Evaluated(e) = IF into(5, "policy_evaluated") THEN grown ELSE Evaluated(d)
             /\ Identifiers(e) = IF into(4, "identifiers") THEN grown ELSE Identifiers(d)
             /\ Auth(e) = IF into(4, "auth_results") THEN grown ELSE Auth(d)
  <2>1. \A t \in {"row", "identifiers", "auth_results"} :
          InPart(e, 4, t, e[3]) = IF into(4, t) THEN grown ELSE InPart(d, 4, t, d[3])
    <3>1. CASE n = 4
      BY <3>1, <1>1, <1>2, <1>4 DEF InPart, Open, into, n
    <3>2. CASE n = 5
      BY <3>2, <1>1, <1>2, <1>4 DEF InPart, Open, into, n
    <3>3. CASE n = 6
      BY <3>3, <1>1, <1>2 DEF InPart, Open, into, n
    <3>4. QED BY <1>1, <1>9, <3>1, <3>2, <3>3
  <2>2. Row(e) = IF into(4, "row") THEN grown ELSE Row(d)
    BY <2>1 DEF Row
  <2>3. /\ Identifiers(e) = IF into(4, "identifiers") THEN grown ELSE Identifiers(d)
        /\ Auth(e) = IF into(4, "auth_results") THEN grown ELSE Auth(d)
    BY <2>1 DEF Identifiers, Auth
  <2>4. Evaluated(e) = IF into(5, "policy_evaluated") THEN grown ELSE Evaluated(d)
    <3>1. CASE n = 4
      BY <3>1, <1>1, <2>2 DEF Evaluated, InPart, Open, into, n
    <3>2. CASE n = 5
      BY <3>2, <1>1, <1>2, <1>4, <2>2 DEF Levels, Row, Evaluated, InPart, Open, into, n
    <3>3. CASE n = 6
      BY <3>3, <1>1, <1>2, <1>4, <2>2 DEF Evaluated, InPart, Open, into, n
    <3>4. QED BY <1>1, <1>9, <3>1, <3>2, <3>3
  <2>5. QED BY <2>2, <2>3, <2>4
<1>10. QED BY <1>5, <1>6, <1>7, <1>8, <1>9 DEF n, grown, into

(* A sequence mapped by f, and with an element more.                       *)
Mapped(f, s) == [i \in DOMAIN s |-> f[s[i]]]

LEMMA MapAppend ==
  ASSUME NEW E, NEW f, NEW s \in Seq(E), NEW k \in E
  PROVE  Mapped(f, Append(s, k)) = Mapped(f, s) \o << f[k] >>
<1> DEFINE A == {f[x] : x \in E}
           a == Mapped(f, Append(s, k))
           c == Mapped(f, s)
           x == f[k]
           o == << x >>
<1>1. /\ Len(s) \in Nat /\ DOMAIN s = 1..Len(s) /\ DOMAIN Append(s, k) = 1..(Len(s) + 1)
      /\ \A i \in 1..Len(s) : s[i] \in E /\ Append(s, k)[i] = s[i]
      /\ Append(s, k)[Len(s) + 1] = k
  BY LenProperties, AppendProperties
<1>2. /\ DOMAIN c = 1..Len(s) /\ c = [i \in 1..Len(s) |-> c[i]]
      /\ \A i \in 1..Len(s) : c[i] = f[s[i]] /\ c[i] \in A
  BY <1>1 DEF Mapped
<1>3. /\ a = [i \in 1..(Len(s) + 1) |-> a[i]]
      /\ \A i \in 1..(Len(s) + 1) : a[i] = f[Append(s, k)[i]]
  BY <1>1 DEF Mapped
<1>4. x \in A /\ o = << x >> /\ x = f[k]
  OBVIOUS
<1> HIDE DEF a, c, x, o, A
<1>5. c \in Seq(A) /\ Len(c) = Len(s)
  <2>1. c \in Seq(A)
    BY <1>1, <1>2, IsASeq
  <2>2. QED BY <1>1, <1>2, <2>1, LenProperties
<1>6. /\ Append(c, x) \in Seq(A) /\ Len(Append(c, x)) = Len(s) + 1 /\ Append(c, x) = c \o o
      /\ (\A i \in 1..Len(s) : Append(c, x)[i] = f[s[i]]) /\ Append(c, x)[Len(s) + 1] = f[k]
  BY <1>2, <1>4, <1>5, AppendProperties, AppendIsConcat
<1>7. \A i \in 1..(Len(s) + 1) : a[i] = Append(c, x)[i]
  <2>1. ASSUME NEW i \in 1..(Len(s) + 1)
        PROVE  a[i] = Append(c, x)[i]
    <3>1. i \in 1..Len(s) \/ i = Len(s) + 1
      BY <1>1
    <3>2. QED BY <1>1, <1>3, <1>6, <3>1
  <2>2. QED BY <2>1
<1>8. Append(c, x) = [i \in 1..(Len(s) + 1) |-> Append(c, x)[i]]
  BY <1>6, LenProperties
<1>9. a = Append(c, x)
  BY <1>3, <1>7, <1>8
<1>10. QED BY <1>6, <1>9 DEF a, c, x, o

(* What is read of a node: its children only, and one child more.          *)
LEMMA SameKids ==
  ASSUME NEW n, NEW m, n.kids = m.kids, NEW t
  PROVE  /\ Named(n, t) = Named(m, t) /\ Child(n, t) = Child(m, t) /\ TextAt(n, t) = TextAt(m, t)
         /\ OptionAt(n, t) = OptionAt(m, t) /\ AuthsOf(n, t) = AuthsOf(m, t)
<1>1. Named(n, t) = Named(m, t)
  BY DEF Named
<1>2. Child(n, t) = Child(m, t)
  BY <1>1 DEF Child
<1>3. QED BY <1>1, <1>2 DEF TextAt, OptionAt, AuthsOf

(* A node without children says nothing.                                   *)
LEMMA NoKids ==
  ASSUME NEW n, n.kids = << >>, NEW t
  PROVE  /\ Child(n, t) = Node("absent") /\ TextAt(n, t) = NoText /\ OptionAt(n, t) = << >>
         /\ AuthsOf(n, t) = << >> /\ Child(n, t).kids = << >>
<1>1. Child(n, t) = Node("absent") /\ Named(n, t) = << >>
  BY ChildNone, NamedNone
<1>2. /\ Node("absent").tag = "absent" /\ Node("absent").text = NoText
      /\ Node("absent").kids = << >>
  BY NodeShape
<1>3. AuthsOf(n, t) = << >>
  BY <1>1 DEF AuthsOf
<1>4. QED BY <1>1, <1>2, <1>3 DEF TextAt, OptionAt

(* What a node says with one child more.                                   *)
LEMMA OneMoreKid ==
  ASSUME NEW n, IsNode(n), NEW k, k.tag # "absent", NEW t
  PROVE  /\ TextAt(Grown(n, k), t) = IF k.tag = t THEN k.text ELSE TextAt(n, t)
         /\ OptionAt(Grown(n, k), t) = IF k.tag = t THEN << k.text >> ELSE OptionAt(n, t)
         /\ AuthsOf(Grown(n, k), t) =
              IF k.tag = t THEN AuthsOf(n, t) \o << AuthOf(k) >> ELSE AuthsOf(n, t)
<1>1. Child(Grown(n, k), t) = IF k.tag = t THEN k ELSE Child(n, t)
  BY ChildGrown
<1>2. /\ TextAt(Grown(n, k), t) = IF k.tag = t THEN k.text ELSE TextAt(n, t)
      /\ OptionAt(Grown(n, k), t) = IF k.tag = t THEN << k.text >> ELSE OptionAt(n, t)
  BY <1>1 DEF TextAt, OptionAt
<1> DEFINE s == Named(n, t)
<1>3. s \in Seq(ToSet(n.kids)) /\ Named(Grown(n, k), t) = IF k.tag = t THEN Append(s, k) ELSE s
  BY NamedGrown
<1>4. CASE k.tag = t
  <2> DEFINE E == ToSet(n.kids) \cup {k}
             f == [x \in E |-> AuthOf(x)]
  <2>1. s \in Seq(E) /\ k \in E
    BY <1>3, SeqMonotonic
  <2>2. /\ Mapped(f, s) = [i \in DOMAIN s |-> AuthOf(s[i])]
        /\ Mapped(f, Append(s, k)) = [i \in DOMAIN Append(s, k) |-> AuthOf(Append(s, k)[i])]
        /\ f[k] = AuthOf(k)
    <3>1. Append(s, k) \in Seq(E)
      BY <2>1, AppendProperties
    <3>2. \A q \in Seq(E) : Mapped(f, q) = [i \in DOMAIN q |-> AuthOf(q[i])]
      <4>1. \A q \in Seq(E) : \A i \in DOMAIN q : f[q[i]] = AuthOf(q[i])
        OBVIOUS
      <4> HIDE DEF f
      <4>2. QED BY <4>1 DEF Mapped
    <3> HIDE DEF E
    <3>3. f[k] = AuthOf(k)
      BY <2>1
    <3> HIDE DEF f
    <3>4. QED BY <2>1, <3>1, <3>2, <3>3
  <2> HIDE DEF f, E
  <2>3. Mapped(f, Append(s, k)) = Mapped(f, s) \o << f[k] >>
    BY <2>1, MapAppend
  <2> HIDE DEF s
  <2>4. AuthsOf(Grown(n, k), t) = Mapped(f, Append(s, k)) /\ AuthsOf(n, t) = Mapped(f, s)
    BY <1>3, <1>4, <2>2 DEF AuthsOf, s
  <2>5. QED BY <1>2, <1>4, <2>2, <2>3, <2>4
<1>5. CASE k.tag # t
  BY <1>2, <1>3, <1>5 DEF AuthsOf
<1>6. QED BY <1>4, <1>5

------------------------------------------------------------------------------
(* What parse() has read when the document is open at d.                   *)
Reading(d) == ReportFrom(Metadata(d), Dates(d), Policy(d), Named(Feedback(d), "record"))
RecordReading(d) == RecordFrom(Row(d), Evaluated(d), Identifiers(d), Auth(d))
AuthReading(d, tag) ==
  IF Open(d, 4, "auth_results") /\ Open(d, 5, tag) THEN << AuthOf(d[5]) >> ELSE << >>

(* A new element adds nothing to it.                                       *)
LEMMA SameReading ==
  ASSUME NEW d, NEW e, Parts(d) = Parts(e)
  PROVE  Reading(d) = Reading(e)
<1>1. /\ Feedback(d).kids = Feedback(e).kids /\ Metadata(d).kids = Metadata(e).kids
      /\ Dates(d).kids = Dates(e).kids /\ Policy(d).kids = Policy(e).kids
  BY DEF Parts
<1>2. /\ \A t : TextAt(Metadata(d), t) = TextAt(Metadata(e), t)
      /\ \A t : TextAt(Dates(d), t) = TextAt(Dates(e), t)
      /\ \A t : TextAt(Policy(d), t) = TextAt(Policy(e), t)
      /\ \A t : OptionAt(Policy(d), t) = OptionAt(Policy(e), t)
      /\ Named(Feedback(d), "record") = Named(Feedback(e), "record")
  BY <1>1, SameKids
<1>3. QED BY <1>2 DEF Reading, ReportFrom

(* Nor to what was read of the open record.                                *)
LEMMA SameRecordReading ==
  ASSUME NEW d, NEW e, RecordParts(d) = RecordParts(e)
  PROVE  RecordReading(d) = RecordReading(e)
<1>1. /\ Row(d).kids = Row(e).kids /\ Evaluated(d).kids = Evaluated(e).kids
      /\ Identifiers(d).kids = Identifiers(e).kids /\ Auth(d).kids = Auth(e).kids
  BY DEF RecordParts
<1>2. /\ \A t : TextAt(Row(d), t) = TextAt(Row(e), t)
      /\ \A t : TextAt(Evaluated(d), t) = TextAt(Evaluated(e), t)
      /\ \A t : OptionAt(Identifiers(d), t) = OptionAt(Identifiers(e), t)
      /\ \A t : AuthsOf(Auth(d), t) = AuthsOf(Auth(e), t)
  BY <1>1, SameKids
<1>3. QED BY <1>2 DEF RecordReading, RecordFrom

(* Of a record or a result that was only opened, what Default gives.       *)
LEMMA NothingRead ==
  /\ AuthOf(Node("dkim")) = EmptyAuth /\ AuthOf(Node("spf")) = EmptyAuth
  /\ \A d : Len(d) = 3 /\ d[3].kids = << >> => RecordReading(d) = EmptyRecord
<1>1. \A t : Node(t).kids = << >>
  BY NodeShape
<1>2. AuthOf(Node("dkim")) = EmptyAuth /\ AuthOf(Node("spf")) = EmptyAuth
  BY <1>1, NoKids DEF AuthOf, EmptyAuth
<1>3. ASSUME NEW d, Len(d) = 3, d[3].kids = << >>
      PROVE  RecordReading(d) = EmptyRecord
  <2>1. Row(d).kids = << >> /\ Identifiers(d).kids = << >> /\ Auth(d).kids = << >>
    BY <1>3, NoKids DEF Row, Identifiers, Auth, InPart, Open
  <2>2. Evaluated(d).kids = << >>
    BY <1>3, <2>1, NoKids DEF Evaluated, InPart, Open
  <2>3. /\ \A t : TextAt(Row(d), t) = NoText /\ TextAt(Evaluated(d), t) = NoText
        /\ \A t : OptionAt(Identifiers(d), t) = << >> /\ AuthsOf(Auth(d), t) = << >>
    BY <2>1, <2>2, NoKids
  <2>4. CountOf(NoText) = 0 /\ NoText # Pass
    BY DEF CountOf, Number, NoText, Pass
  <2>5. QED BY <2>3, <2>4 DEF RecordReading, RecordFrom, EmptyRecord
<1>4. QED BY <1>2, <1>3

------------------------------------------------------------------------------
(* parse() while it is at it: its stack is the path to the open element,   *)
(* what it has put away is what the document says so far.                  *)
StackIs == stack = [i \in 1..(Len(dom) - 1) |-> dom[i + 1].tag]

TextIs ==
  /\ cur_text = Top.text /\ cur_text \in {NoText} \cup Words(Top.tag)
  /\ Content # << >> => cur_text = NoText
  /\ \A i \in 1..(Len(dom) - 1) : dom[i].text = NoText

HasRead ==
  /\ rpt = Reading(dom)
  /\ cur_record = IF Open(dom, 3, "record") THEN << RecordReading(dom) >> ELSE << >>
  /\ cur_dkim = AuthReading(dom, "dkim") /\ cur_spf = AuthReading(dom, "spf")

LocalsTyped ==
  /\ result \in {"parsing", "ok", "err"} /\ starts \in 0..MaxStarts
  /\ cur_record \in Seq(RecordType) /\ cur_dkim \in Seq(AuthType) /\ cur_spf \in Seq(AuthType)

ParseInv == LocalsTyped /\ Shape(dom) /\ StackIs /\ TextIs /\ HasRead

(* A name is on the stack if it is on the path.                            *)
LEMMA InIs ==
  ASSUME Shape(dom), StackIs
  PROVE  /\ \A tag : In(tag) <=> \E i \in 2..Len(dom) : dom[i].tag = tag
         /\ Len(dom) > 1 => stack # << >> /\ Last(stack) = dom[Len(dom)].tag
         /\ stack \in Seq({dom[i].tag : i \in 1..Len(dom)}) /\ Len(stack) = Len(dom) - 1
<1> DEFINE n == Len(dom)
           E == {dom[i].tag : i \in 1..n}
<1>1. n \in 1..6 /\ n - 1 \in Nat
  <2>1. n \in 1..6
    BY DEF Shape
  <2> HIDE DEF n
  <2>2. QED BY <2>1
<1>2. DOMAIN stack = 1..(n - 1) /\ \A i \in 1..(n - 1) : stack[i] = dom[i + 1].tag
  BY DEF StackIs
<1>3. ASSUME NEW tag
      PROVE  In(tag) <=> \E i \in 2..n : dom[i].tag = tag
  <2>1. ASSUME In(tag)
        PROVE  \E i \in 2..n : dom[i].tag = tag
    <3>1. PICK j \in 1..(n - 1) : stack[j] = tag
      BY <1>2, <2>1 DEF In, ToSet
    <3>2. j + 1 \in 2..n
      BY <1>1
    <3>3. QED BY <1>2, <3>1, <3>2
  <2>2. ASSUME NEW i \in 2..n, dom[i].tag = tag
        PROVE  In(tag)
    <3>1. i - 1 \in 1..(n - 1) /\ (i - 1) + 1 = i
      BY <1>1
    <3>2. stack[i - 1] = tag
      BY <1>2, <2>2, <3>1
    <3>3. QED BY <1>2, <3>1, <3>2 DEF In, ToSet
  <2>3. QED BY <2>1, <2>2
<1>4. stack \in Seq(E) /\ Len(stack) = n - 1
  <2>1. \A i \in 1..(n - 1) : i + 1 \in 1..n
    BY <1>1
  <2>2. \A i \in 1..(n - 1) : stack[i] \in E
    BY <1>2, <2>1
  <2> HIDE DEF n, E
  <2>3. stack = [i \in 1..(n - 1) |-> stack[i]]
    BY <1>2 DEF StackIs, n
  <2>4. stack \in Seq(E)
    BY <1>1, <2>2, <2>3, IsASeq
  <2>5. QED BY <1>1, <1>2, <2>4, LenProperties
<1>5. n > 1 => stack # << >> /\ Last(stack) = dom[n].tag
  <2> SUFFICES ASSUME n > 1 PROVE stack # << >> /\ Last(stack) = dom[n].tag
    OBVIOUS
  <2>1. n - 1 \in 1..(n - 1) /\ (n - 1) + 1 = n
    BY <1>1
  <2>2. stack[n - 1] = dom[n].tag
    BY <1>2, <2>1
  <2>3. Len(stack) # 0
    BY <1>1, <1>4
  <2>4. QED BY <1>4, <2>2, <2>3 DEF Last
<1>6. QED BY <1>3, <1>4, <1>5

(* The names that parse() looks for, at the one depth they have.           *)
LEMMA NamesOpen ==
  ASSUME Shape(dom), StackIs
  PROVE  /\ \A t \in {"report_metadata", "policy_published", "record"} : In(t) <=> Open(dom, 3, t)
         /\ \A t \in {"date_range", "row", "identifiers", "auth_results"} : In(t) <=> Open(dom, 4, t)
         /\ \A t \in {"dkim", "spf"} : In(t) <=> Open(dom, 5, t) \/ Open(dom, 6, t)
<1> DEFINE n == Len(dom)
<1>1. n \in 1..6 /\ Levels(dom)
  BY DEF Shape
<1>2. \A t : In(t) <=> \E i \in {2, 3, 4, 5, 6} : Open(dom, i, t)
  <2>1. \A t : In(t) <=> \E i \in 2..n : dom[i].tag = t
    BY InIs
  <2>2. /\ \A i \in 2..n : i \in {2, 3, 4, 5, 6} /\ n >= i
        /\ \A i \in {2, 3, 4, 5, 6} : n >= i => i \in 2..n
    <3>1. \A i \in 2..6 : i \in {2, 3, 4, 5, 6}
      OBVIOUS
    <3>2. \A i \in 2..n : i \in 2..6 /\ n >= i
      <4>1. n \in 1..6
        BY <1>1
      <4> HIDE DEF n
      <4>2. QED BY <4>1
    <3>3. \A i \in {2, 3, 4, 5, 6} : i \in Nat /\ i >= 2
      OBVIOUS
    <3>4. \A i \in Nat : i >= 2 /\ n >= i => i \in 2..n
      BY <1>1
    <3>5. QED BY <3>1, <3>2, <3>3, <3>4
  <2>3. QED BY <2>1, <2>2 DEF Open
<1>3. \A t \in {"report_metadata", "policy_published", "record"} :
        ~Open(dom, 2, t) /\ ~Open(dom, 4, t) /\ ~Open(dom, 5, t) /\ ~Open(dom, 6, t)
  BY <1>1 DEF Levels, Open
<1>4. \A t \in {"date_range", "row", "identifiers", "auth_results"} :
        ~Open(dom, 2, t) /\ ~Open(dom, 3, t) /\ ~Open(dom, 5, t) /\ ~Open(dom, 6, t)
  BY <1>1 DEF Levels, Open
<1>5. \A t \in {"dkim", "spf"} : ~Open(dom, 2, t) /\ ~Open(dom, 3, t) /\ ~Open(dom, 4, t)
  BY <1>1 DEF Levels, Open
<1>6. QED BY <1>2, <1>3, <1>4, <1>5

(* The branch of the end handler by the elements that are open.            *)
LEMMA ContextIs ==
  ASSUME Shape(dom), StackIs, HasRead
  PROVE  LET n == Len(dom)
             m == dom[3].tag
             k == dom[4].tag
         IN  /\ n < 3 => Context = "none"
             /\ n >= 3 /\ m = "report_metadata" =>
                  Context = IF n >= 4 /\ k = "date_range" THEN "date_range" ELSE "metadata"
             /\ n >= 3 /\ m = "policy_published" => Context = "policy"
             /\ n = 3 /\ m = "record" => Context = "record"
             /\ n >= 4 /\ k = "row" => Context = "row"
             /\ n >= 4 /\ k = "identifiers" => Context = "identifiers"
             /\ n >= 4 /\ k = "auth_results" => Context = "auth"
<1> DEFINE n == Len(dom)
           m == dom[3].tag
           k == dom[4].tag
           O(i, t) == n >= i /\ dom[i].tag = t
<1>1. n \in 1..6 /\ Levels(dom)
  BY DEF Shape
<1>2. /\ \A t \in {"report_metadata", "policy_published"} : In(t) <=> O(3, t)
      /\ \A t \in {"date_range", "row", "identifiers", "auth_results"} : In(t) <=> O(4, t)
  BY NamesOpen DEF Open
<1>3. (cur_record = << >>) <=> ~O(3, "record")
  BY DEF HasRead, Open
<1>4. /\ n >= 4 => (k \in {"org_name", "report_id", "date_range"} => m = "report_metadata")
      /\ n >= 4 => (k \in {"row", "identifiers", "auth_results"} => m = "record")
  BY <1>1 DEF Levels
<1>5. n >= 4 => n >= 3
  BY <1>1
<1>6. n < 3 => ~(n >= 3) /\ ~(n >= 4)
  BY <1>1
<1>7. n = 3 => n >= 3 /\ ~(n >= 4)
  BY <1>1
<1> HIDE DEF n, m, k
<1>8. /\ n < 3 => Context = "none"
      /\ n >= 3 /\ m = "report_metadata" =>
           Context = IF n >= 4 /\ k = "date_range" THEN "date_range" ELSE "metadata"
      /\ n >= 3 /\ m = "policy_published" => Context = "policy"
  BY <1>2, <1>3, <1>4, <1>5, <1>6 DEF Context, m, k
<1>9. /\ n = 3 /\ m = "record" => Context = "record"
      /\ n >= 4 /\ k = "row" => Context = "row"
      /\ n >= 4 /\ k = "identifiers" => Context = "identifiers"
      /\ n >= 4 /\ k = "auth_results" => Context = "auth"
  BY <1>2, <1>3, <1>4, <1>5, <1>6, <1>7 DEF Context, m, k
<1>10. QED BY <1>8, <1>9 DEF n, m, k

(* Before the first event nothing is read.                                 *)
LEMMA ParseInvInit == ParseInit => ParseInv
<1> SUFFICES ASSUME ParseInit PROVE ParseInv
  OBVIOUS
<1>1. dom = << Node("document") >> /\ Len(dom) = 1 /\ dom[1] = Node("document")
  BY DEF ParseInit
<1>2. /\ IsNode(dom[1]) /\ dom[1].tag = "document" /\ dom[1].text = NoText
      /\ dom[1].kids = << >>
  BY <1>1, NodeShape
<1>3. Shape(dom)
  <2>1. dom \in Seq(ToSet(dom))
    <3>1. Node("document") \in ToSet(dom)
      BY <1>1 DEF ToSet
    <3>2. QED BY <1>1, <3>1
  <2>2. QED BY <1>1, <1>2, <2>1 DEF Shape, Levels
<1>4. StackIs
  BY <1>1 DEF ParseInit, StackIs
<1>5. TextIs
  BY <1>1, <1>2 DEF ParseInit, TextIs, Top, Last
<1>6. HasRead
  <2>1. Feedback(dom).kids = << >>
    BY <1>1, <1>2, NoKids DEF Feedback, InPart, Open
  <2>2. Metadata(dom).kids = << >> /\ Policy(dom).kids = << >>
    BY <1>1, <2>1, NoKids DEF Metadata, Policy, InPart, Open
  <2>3. Dates(dom).kids = << >>
    BY <1>1, <2>2, NoKids DEF Dates, InPart, Open
  <2>4. /\ \A t : TextAt(Metadata(dom), t) = NoText /\ TextAt(Dates(dom), t) = NoText
        /\ \A t : TextAt(Policy(dom), t) = NoText /\ OptionAt(Policy(dom), t) = << >>
        /\ Named(Feedback(dom), "record") = << >>
    BY <2>1, <2>2, <2>3, NoKids, NamedNone
  <2>5. Number(NoText) = << >>
    BY DEF Number, NoText
  <2>6. Reading(dom) = EmptyReport
    BY <2>4, <2>5 DEF Reading, ReportFrom, EmptyReport
  <2>7. QED BY <1>1, <2>6 DEF ParseInit, HasRead, AuthReading, Open
<1>7. LocalsTyped
  BY BoundAssumption DEF ParseInit, LocalsTyped
<1>8. QED BY <1>3, <1>4, <1>5, <1>6, <1>7 DEF ParseInv

(* A start tag.                                                            *)
LEMMA StartKeeps == ParseInv /\ StartEvent => ParseInv'
<1> SUFFICES ASSUME ParseInv, StartEvent PROVE ParseInv'
  OBVIOUS
<1> Shape(dom) /\ StackIs /\ TextIs /\ HasRead /\ LocalsTyped
  BY DEF ParseInv
<1>1. PICK tag \in MayStart : DomStart(tag) /\ Start(tag)
  BY DEF StartEvent
<1> DEFINE n == Len(dom)
<1>0. dom' = Append(dom, Node(tag))
  BY <1>1 DEF DomStart
<1>2. n \in 1..6 /\ Levels(dom)
  BY DEF Shape
<1>3. Shape(dom') /\ Content # << >>
  BY <1>0, StartShape
<1>4. /\ Len(dom') = n + 1 /\ (\A i \in 1..n : dom'[i] = dom[i]) /\ dom'[n + 1] = Node(tag)
  BY <1>0, Started DEF Shape
<1>5. IsNode(Node(tag)) /\ Node(tag).tag = tag /\ Node(tag).text = NoText /\ Node(tag).kids = << >>
  BY NodeShape
<1>6. StackIs'
  <2>1. /\ stack \in Seq({dom[i].tag : i \in 1..n}) /\ Len(stack) = n - 1
        /\ DOMAIN stack = 1..(n - 1) /\ \A i \in 1..(n - 1) : stack[i] = dom[i + 1].tag
    BY InIs DEF StackIs
  <2> DEFINE E == {dom[i].tag : i \in 1..n} \cup {tag}
  <2>2. stack \in Seq(E) /\ tag \in E
    BY <2>1, SeqMonotonic
  <2> HIDE DEF E, n
  <2>3. /\ Append(stack, tag) \in Seq(E) /\ Len(Append(stack, tag)) = n
        /\ (\A i \in 1..(n - 1) : Append(stack, tag)[i] = dom[i + 1].tag) /\ Append(stack, tag)[n] = tag
    BY <1>2, <2>1, <2>2, AppendProperties
  <2>4. \A i \in 1..n : Append(stack, tag)[i] = dom'[i + 1].tag
    <3>1. ASSUME NEW i \in 1..n
          PROVE  Append(stack, tag)[i] = dom'[i + 1].tag
      <4>1. i = n \/ (i \in 1..(n - 1) /\ i + 1 \in 1..n)
        BY <1>2
      <4>2. QED BY <1>4, <1>5, <2>3, <4>1
    <3>2. QED BY <3>1
  <2>5. Append(stack, tag) = [i \in 1..n |-> Append(stack, tag)[i]]
    BY <2>3, LenProperties
  <2>6. Append(stack, tag) = [i \in 1..n |-> dom'[i + 1].tag]
    BY <2>4, <2>5
  <2>7. n = Len(dom') - 1
    BY <1>2, <1>4
  <2>8. QED BY <1>1, <2>6, <2>7 DEF Start, StackIs
<1>7. TextIs'
  <2>1. cur_text' = NoText /\ dom'[Len(dom')].text = NoText
    BY <1>1, <1>2, <1>4, <1>5 DEF Start
  <2>2. \A i \in 1..(Len(dom') - 1) : dom'[i].text = NoText
    <3>1. ASSUME NEW i \in 1..(Len(dom') - 1)
          PROVE  dom'[i].text = NoText
      <4>1. i \in 1..n /\ (i = n \/ i \in 1..(n - 1))
        BY <1>2, <1>4
      <4>2. dom[n].text = NoText
        BY <1>3 DEF TextIs, Top, Last
      <4>3. QED BY <1>4, <4>1, <4>2 DEF TextIs
    <3>2. QED BY <3>1
  <2>3. QED BY <2>1, <2>2 DEF TextIs, Top, Last
<1>8. /\ tag \in ToSet(Content)
      /\ ~Repeats(tag, dom[n].tag) => \A k \in ToSet(dom[n].kids) : k.tag # tag
  BY StartTag DEF Top, Last
<1>9. tag \notin {"record", "dkim", "spf"} => \A k \in ToSet(dom[n].kids) : k.tag # tag
  BY <1>8 DEF Repeats
<1>10. Parts(dom') = Parts(dom) /\ (n >= 3 => RecordParts(dom') = RecordParts(dom))
  BY <1>3, <1>4, <1>9, StartParts
<1>11. Levels(dom') /\ dom'[n + 1].tag = tag
  BY <1>3, <1>4, <1>5 DEF Shape
<1>12. rpt' = Reading(dom')
  BY <1>1, <1>10, SameReading DEF Start, HasRead
<1>13. cur_record' = IF Open(dom', 3, "record") THEN << RecordReading(dom') >> ELSE << >>
  <2>1. CASE n >= 3
    <3>1. tag # "record"
      <4>1. n = 3 \/ n = 4 \/ n = 5
        BY <1>2, <1>3, <1>4, <2>1 DEF Shape
      <4>2. Len(dom') = n + 1 /\ dom'[n + 1].tag = tag
        BY <1>4, <1>11
      <4>3. CASE n = 3
        BY <1>11, <4>2, <4>3 DEF Levels
      <4>4. CASE n = 4
        BY <1>11, <4>2, <4>4 DEF Levels
      <4>5. CASE n = 5
        BY <1>11, <4>2, <4>5 DEF Levels
      <4>6. QED BY <4>1, <4>3, <4>4, <4>5
    <3>2. Open(dom', 3, "record") <=> Open(dom, 3, "record")
      BY <1>2, <1>4, <2>1 DEF Open
    <3>3. RecordReading(dom') = RecordReading(dom)
      BY <1>10, <2>1, SameRecordReading
    <3>4. QED BY <1>1, <3>1, <3>2, <3>3 DEF Start, HasRead
  <2>2. CASE n = 2
    <3>1. Open(dom', 3, "record") <=> tag = "record"
      BY <1>4, <1>11, <2>2 DEF Open
    <3>2. RecordReading(dom') = EmptyRecord
      BY <1>4, <1>5, <2>2, NothingRead
    <3>3. cur_record = << >>
      BY <2>2 DEF HasRead, Open
    <3>4. QED BY <1>1, <3>1, <3>2, <3>3 DEF Start
  <2>3. CASE n = 1
    <3>1. ~Open(dom', 3, "record") /\ cur_record = << >> /\ tag = "feedback"
      BY <1>4, <1>11, <2>3 DEF Open, HasRead, Levels
    <3>2. QED BY <1>1, <3>1 DEF Start
  <2>4. n >= 3 \/ n = 2 \/ n = 1
    <3> HIDE DEF n
    <3>1. QED BY <1>2
  <2>5. QED BY <2>1, <2>2, <2>3, <2>4
<1>14. ASSUME NEW t \in {"dkim", "spf"}
       PROVE  Opened(t, tag, AuthReading(dom, t)) = AuthReading(dom', t)
  <2>1. "auth_results" \in ToSet(stack) <=> Open(dom, 4, "auth_results")
    BY NamesOpen DEF In
  <2>2. CASE n >= 5
    <3>1. /\ Open(dom', 4, "auth_results") <=> Open(dom, 4, "auth_results")
          /\ (Open(dom', 5, t) <=> Open(dom, 5, t)) /\ dom'[5] = dom[5]
      BY <1>2, <1>4, <2>2 DEF Open
    <3>2. ~(tag = t /\ Open(dom, 4, "auth_results"))
      <4>1. n = 5
        BY <1>2, <1>3, <1>4, <2>2 DEF Shape
      <4>2. Len(dom') = 6 /\ dom'[6].tag = tag /\ dom'[5] = dom[5] /\ dom'[4] = dom[4]
        BY <1>4, <1>11, <4>1
      <4>3. QED BY <1>11, <4>2 DEF Open, Levels
    <3>3. t # "auth_results"
      OBVIOUS
    <3>4. QED BY <2>1, <3>1, <3>2, <3>3 DEF Opened, AuthReading
  <2>3. CASE n = 4
    <3>1. /\ Open(dom', 4, "auth_results") <=> Open(dom, 4, "auth_results")
          /\ (Open(dom', 5, t) <=> tag = t) /\ ~Open(dom, 5, t) /\ dom'[5] = Node(tag)
      BY <1>2, <1>4, <1>11, <2>3 DEF Open
    <3>2. AuthOf(Node(t)) = EmptyAuth /\ t # "auth_results"
      BY NothingRead
    <3>3. QED BY <2>1, <3>1, <3>2 DEF Opened, AuthReading
  <2>4. CASE n \in 1..3
    <3>1. ~Open(dom', 5, t) /\ ~Open(dom, 5, t)
      <4>1. ~(n >= 5) /\ ~(n + 1 >= 5)
        <5> HIDE DEF n
        <5>1. QED BY <2>4
      <4>2. QED BY <1>4, <4>1 DEF Open
    <3>2. tag # t /\ t # "auth_results"
      BY <1>2, <1>4, <1>11, <2>4 DEF Levels
    <3>3. QED BY <3>1, <3>2 DEF Opened, AuthReading
  <2>5. QED BY <1>2, <2>2, <2>3, <2>4
<1>15. cur_dkim' = AuthReading(dom', "dkim") /\ cur_spf' = AuthReading(dom', "spf")
  BY <1>1, <1>14 DEF Start, HasRead
<1>16. LocalsTyped'
  <2>1. starts' \in 0..MaxStarts /\ result' = result
    BY <1>1, BoundAssumption DEF StartEvent, Parsing, DomStart, LocalsTyped
  <2>2. EmptyRecord \in RecordType /\ EmptyAuth \in AuthType
    BY DEF EmptyRecord, RecordType, EmptyAuth, AuthType, Texts
  <2>3. << EmptyRecord >> \in Seq(RecordType) /\ << EmptyAuth >> \in Seq(AuthType)
    BY <2>2
  <2>4. QED BY <1>1, <2>1, <2>3 DEF Start, Opened, LocalsTyped
<1>17. QED BY <1>3, <1>6, <1>7, <1>12, <1>13, <1>15, <1>16 DEF ParseInv, HasRead

(* A leaf's text: what is read of a node does not depend on it.            *)
LEMMA TextKeeps == ParseInv /\ TextEvent => ParseInv'
<1> SUFFICES ASSUME ParseInv, TextEvent PROVE ParseInv'
  OBVIOUS
<1> Shape(dom) /\ StackIs /\ TextIs /\ HasRead /\ LocalsTyped
  BY DEF ParseInv
<1>1. PICK v \in Words(Top.tag) : DomText(v) /\ Text(v)
  BY DEF TextEvent
<1> DEFINE n == Len(dom)
           leaf == [dom[n] EXCEPT !.text = v]
<1>2. n \in 1..6 /\ Levels(dom) /\ dom \in Seq(ToSet(dom)) /\ \A i \in 1..n : IsNode(dom[i])
  BY DEF Shape
<1>0. IsNode(dom[n])
  <2>1. n \in 1..n
    <3> HIDE DEF n
    <3>1. QED BY <1>2
  <2>2. QED BY <1>2, <2>1
<1>3. IsNode(leaf) /\ leaf.tag = dom[n].tag /\ leaf.kids = dom[n].kids /\ leaf.text = v
  <2>1. \A t, x, ks : [[tag |-> t, text |-> x, kids |-> ks] EXCEPT !.text = v]
                        = [tag |-> t, text |-> v, kids |-> ks]
    OBVIOUS
  <2>2. leaf = [[tag |-> dom[n].tag, text |-> dom[n].text, kids |-> dom[n].kids] EXCEPT !.text = v]
    BY <1>0 DEF IsNode
  <2>3. leaf = [tag |-> dom[n].tag, text |-> v, kids |-> dom[n].kids]
    BY <2>1, <2>2
  <2>4. dom[n].kids \in Seq(ToSet(dom[n].kids))
    BY <1>0 DEF IsNode
  <2> HIDE DEF leaf
  <2>5. QED BY <2>3, <2>4 DEF IsNode
<1> HIDE DEF leaf, n
<1>4. /\ DOMAIN dom = 1..n /\ dom = [i \in 1..n |-> dom[i]]
  BY <1>2, LenProperties DEF n
<1>5. dom' = [i \in 1..n |-> IF i = n THEN leaf ELSE dom[i]]
  <2>1. dom' = [dom EXCEPT ![n] = leaf]
    BY <1>1 DEF DomText, leaf, n
  <2>2. QED BY <1>4, <2>1
<1>6. dom' \in Seq(ToSet(dom')) /\ Len(dom') = n
  <2>1. DOMAIN dom' = 1..n /\ dom' = [i \in 1..n |-> dom'[i]] /\ \A i \in 1..n : dom'[i] \in ToSet(dom')
    BY <1>5 DEF ToSet
  <2>2. dom' \in Seq(ToSet(dom'))
    BY <1>2, <2>1, IsASeq
  <2>3. QED BY <1>2, <2>1, <2>2, LenProperties
<1>7. \A i \in 1..n : IsNode(dom'[i]) /\ dom'[i].tag = dom[i].tag /\ dom'[i].kids = dom[i].kids
  BY <1>2, <1>3, <1>5
<1>8. dom'[n] = leaf /\ \A i \in 1..(n - 1) : dom'[i] = dom[i]
  BY <1>2, <1>5
<1>9. \A i \in {1, 2, 3, 4, 5, 6} : n >= i => i \in 1..n
  BY <1>2
<1>10. \A i \in {1, 2, 3, 4, 5, 6} : n >= i =>
          dom'[i].tag = dom[i].tag /\ dom'[i].kids = dom[i].kids
  BY <1>7, <1>9
<1>11. Shape(dom')
  <2>1. Levels(dom')
    <3>1. n >= 1
      BY <1>2
    <3>2. QED BY <1>2, <1>6, <1>10, <3>1 DEF Levels, n
  <2>2. QED BY <1>2, <1>6, <1>7, <2>1 DEF Shape
<1>12. StackIs'
  <2>1. \A i \in 1..(n - 1) : dom'[i + 1].tag = dom[i + 1].tag
    <3>1. \A i \in 1..(n - 1) : i + 1 \in 1..n
      BY <1>2
    <3>2. QED BY <1>7, <3>1
  <2>2. [i \in 1..(n - 1) |-> dom'[i + 1].tag] = [i \in 1..(n - 1) |-> dom[i + 1].tag]
    BY <2>1
  <2>3. QED BY <1>1, <1>6, <2>2 DEF Text, StackIs, n
<1>13. TextIs'
  <2>1. Content = << >> /\ cur_text = NoText
    BY DEF TextEvent, TextIs
  <2>2. Top'.tag = Top.tag /\ Top'.text = v
    BY <1>3, <1>6, <1>8 DEF Top, Last, n
  <2>3. Content' = << >>
    <3>1. ParentTag' = ParentTag
      <4>1. n > 1 => n - 1 \in 1..n
        BY <1>2
      <4>2. QED BY <1>6, <1>7, <4>1 DEF ParentTag, n
    <3>2. QED BY <2>1, <2>2, <3>1 DEF Content
  <2>4. cur_text' = v
    <3>1. \A s : s \in Seq({"7", "?", "pass"}) => NoText \o s = s
      BY ConcatEmptySeq DEF NoText
    <3>2. v \in Seq({"7", "?", "pass"})
      <4>1. v = <<"7">> \/ v = <<"?">> \/ v = <<"pass">>
        BY DEF Words, Pass
      <4>2. /\ <<"7">> \in Seq({"7", "?", "pass"}) /\ <<"?">> \in Seq({"7", "?", "pass"})
            /\ <<"pass">> \in Seq({"7", "?", "pass"})
        OBVIOUS
      <4>3. QED BY <4>1, <4>2
    <3>3. QED BY <1>1, <2>1, <3>1, <3>2 DEF Text
  <2>5. \A i \in 1..(Len(dom') - 1) : dom'[i].text = NoText
    BY <1>6, <1>8 DEF TextIs, n
  <2>6. v \in Words(Top'.tag)
    BY <2>2
  <2>7. QED BY <2>2, <2>3, <2>4, <2>5, <2>6 DEF TextIs
<1>14. ASSUME NEW i \in {2, 3, 4, 5}, NEW t, NEW p, NEW q, p.kids = q.kids
       PROVE  InPart(dom', i, t, q).kids = InPart(dom, i, t, p).kids
  <2>1. Child(p, t) = Child(q, t)
    BY <1>14, SameKids
  <2>2. QED BY <1>6, <1>10, <2>1 DEF InPart, Open, n
<1>15. Parts(dom') = Parts(dom)
  <2>1. dom'[1].kids = dom[1].kids
    BY <1>2, <1>10
  <2>2. Feedback(dom').kids = Feedback(dom).kids
    BY <1>14, <2>1 DEF Feedback
  <2>3. Metadata(dom').kids = Metadata(dom).kids /\ Policy(dom').kids = Policy(dom).kids
    BY <1>14, <2>2 DEF Metadata, Policy
  <2>4. Dates(dom').kids = Dates(dom).kids
    BY <1>14, <2>3 DEF Dates
  <2>5. QED BY <2>2, <2>3, <2>4 DEF Parts
<1>16. n >= 3 => RecordParts(dom') = RecordParts(dom)
  <2> SUFFICES ASSUME n >= 3 PROVE RecordParts(dom') = RecordParts(dom)
    OBVIOUS
  <2>1. dom'[3].kids = dom[3].kids
    BY <1>10
  <2>2. /\ Row(dom').kids = Row(dom).kids /\ Auth(dom').kids = Auth(dom).kids
        /\ Identifiers(dom').kids = Identifiers(dom).kids
    BY <1>14, <2>1 DEF Row, Auth, Identifiers
  <2>3. Evaluated(dom').kids = Evaluated(dom).kids
    BY <1>14, <2>2 DEF Evaluated
  <2>4. QED BY <2>2, <2>3 DEF RecordParts
<1>17. HasRead'
  <2>1. Reading(dom') = Reading(dom) /\ (n >= 3 => RecordReading(dom') = RecordReading(dom))
    BY <1>15, <1>16, SameReading, SameRecordReading
  <2>2. \A i \in {3, 4, 5} : \A t : Open(dom', i, t) <=> Open(dom, i, t)
    BY <1>6, <1>10 DEF Open, n
  <2>3. n >= 5 => AuthOf(dom'[5]) = AuthOf(dom[5])
    <3> SUFFICES ASSUME n >= 5 PROVE AuthOf(dom'[5]) = AuthOf(dom[5])
      OBVIOUS
    <3>1. dom'[5].kids = dom[5].kids
      BY <1>10
    <3>2. \A t : TextAt(dom'[5], t) = TextAt(dom[5], t)
      BY <3>1, SameKids
    <3>3. QED BY <3>2 DEF AuthOf
  <2>4. (Open(dom, 3, "record") => n >= 3) /\ \A t : Open(dom, 5, t) => n >= 5
    BY DEF Open, n
  <2>5. \A t : AuthReading(dom', t) = AuthReading(dom, t)
    BY <2>2, <2>3, <2>4 DEF AuthReading
  <2>6. QED BY <1>1, <2>1, <2>2, <2>4, <2>5 DEF Text, HasRead
<1>18. LocalsTyped'
  BY <1>1 DEF TextEvent, Parsing, Text, DomText, LocalsTyped
<1>19. QED BY <1>11, <1>12, <1>13, <1>17, <1>18 DEF ParseInv

(* What an end tag adds to what the parts say.                             *)
Records(d) == [i \in DOMAIN Named(Feedback(d), "record") |-> RecordOf(Named(Feedback(d), "record")[i])]

(* The node that the ended one becomes a child of.                         *)
LEMMA EndNode ==
  ASSUME NEW d, Shape(d), Len(d) > 1
  PROVE  IsNode(d[Len(d) - 1]) /\ d[Len(d)].tag # "absent"
<1> DEFINE n == Len(d)
<1>1. n \in 2..6 /\ Levels(d)
  BY DEF Shape
<1>2. n - 1 \in 1..n /\ (n = 2 \/ n = 3 \/ n = 4 \/ n = 5 \/ n = 6)
  <2> HIDE DEF n
  <2>1. QED BY <1>1
<1>3. IsNode(d[n - 1])
  BY <1>2 DEF Shape
<1>4. d[n].tag # "absent"
  <2>1. CASE n = 2
    BY <1>1, <2>1 DEF Levels
  <2>2. CASE n = 3
    BY <1>1, <2>2 DEF Levels
  <2>3. CASE n = 4
    BY <1>1, <2>3 DEF Levels
  <2>4. CASE n = 5
    BY <1>1, <2>4 DEF Levels
  <2>5. CASE n = 6
    BY <1>1, <2>5 DEF Levels
  <2>6. QED BY <1>2, <2>1, <2>2, <2>3, <2>4, <2>5
<1>5. QED BY <1>3, <1>4

(* The texts of the report's own parts, after an end tag.                  *)
LEMMA EndTexts ==
  ASSUME NEW d, Shape(d), Len(d) > 1, NEW e, e = Ended(d), NEW t
  PROVE  /\ TextAt(Metadata(e), t) =
              IF Len(d) = 4 /\ d[3].tag = "report_metadata" /\ d[Len(d)].tag = t THEN d[Len(d)].text
              ELSE TextAt(Metadata(d), t)
         /\ TextAt(Dates(e), t) =
              IF Len(d) = 5 /\ d[4].tag = "date_range" /\ d[Len(d)].tag = t THEN d[Len(d)].text
              ELSE TextAt(Dates(d), t)
         /\ TextAt(Policy(e), t) =
              IF Len(d) = 4 /\ d[3].tag = "policy_published" /\ d[Len(d)].tag = t THEN d[Len(d)].text
              ELSE TextAt(Policy(d), t)
         /\ OptionAt(Policy(e), t) =
              IF Len(d) = 4 /\ d[3].tag = "policy_published" /\ d[Len(d)].tag = t
              THEN << d[Len(d)].text >> ELSE OptionAt(Policy(d), t)
<1> DEFINE n == Len(d)
           k == d[n]
           into(i, p) == n = i + 1 /\ d[i].tag = p
           grown == Grown(d[n - 1], k)
<1>1. n \in 2..6 /\ Levels(d)
  BY DEF Shape
<1>2. IsNode(d[n - 1]) /\ k.tag # "absent"
  BY EndNode
<1>3. /\ TextAt(grown, t) = IF k.tag = t THEN k.text ELSE TextAt(d[n - 1], t)
      /\ OptionAt(grown, t) = IF k.tag = t THEN << k.text >> ELSE OptionAt(d[n - 1], t)
  BY <1>2, OneMoreKid
<1>4. /\ Metadata(e) = IF into(3, "report_metadata") THEN grown ELSE Metadata(d)
      /\ Dates(e) = IF into(4, "date_range") THEN grown ELSE Dates(d)
      /\ Policy(e) = IF into(3, "policy_published") THEN grown ELSE Policy(d)
  BY EndParts
<1>5. \A i \in 3..5 : \A p, q : into(i, p) => InPart(d, i, p, q) = d[n - 1]
  <2>1. ASSUME NEW i \in 3..5, n = i + 1
        PROVE  Len(d) >= i /\ n - 1 = i
    <3> HIDE DEF n
    <3>1. n >= i /\ n - 1 = i
      BY <2>1
    <3>2. QED BY <3>1 DEF n
  <2>2. QED BY <2>1 DEF InPart, Open
<1>6. /\ into(3, "report_metadata") => Metadata(d) = d[n - 1]
      /\ into(4, "date_range") => Dates(d) = d[n - 1]
      /\ into(3, "policy_published") => Policy(d) = d[n - 1]
  <2>1. 3 \in 3..5 /\ 4 \in 3..5 /\ 5 \in 3..5
    OBVIOUS
  <2> HIDE DEF into, n
  <2>2. QED BY <1>5, <2>1 DEF Metadata, Dates, Policy
<1>7. /\ into(3, "report_metadata") <=> n = 4 /\ d[3].tag = "report_metadata"
      /\ into(4, "date_range") <=> n = 5 /\ d[4].tag = "date_range"
      /\ into(3, "policy_published") <=> n = 4 /\ d[3].tag = "policy_published"
  <2> HIDE DEF n
  <2>1. QED OBVIOUS
<1> HIDE DEF grown, into, k
<1>8. QED BY <1>3, <1>4, <1>6, <1>7 DEF k, n

(* The texts and results of a record's parts, after an end tag inside it.  *)
LEMMA EndRecordTexts ==
  ASSUME NEW d, Shape(d), Len(d) >= 4, d[3].tag = "record", NEW e, e = Ended(d), NEW t
  PROVE  /\ TextAt(Row(e), t) =
              IF Len(d) = 5 /\ d[4].tag = "row" /\ d[Len(d)].tag = t THEN d[Len(d)].text
              ELSE TextAt(Row(d), t)
         /\ TextAt(Evaluated(e), t) =
              IF Len(d) = 6 /\ d[5].tag = "policy_evaluated" /\ d[Len(d)].tag = t
              THEN d[Len(d)].text ELSE TextAt(Evaluated(d), t)
         /\ OptionAt(Identifiers(e), t) =
              IF Len(d) = 5 /\ d[4].tag = "identifiers" /\ d[Len(d)].tag = t
              THEN << d[Len(d)].text >> ELSE OptionAt(Identifiers(d), t)
         /\ AuthsOf(Auth(e), t) =
              IF Len(d) = 5 /\ d[4].tag = "auth_results" /\ d[Len(d)].tag = t
              THEN AuthsOf(Auth(d), t) \o << AuthOf(d[Len(d)]) >> ELSE AuthsOf(Auth(d), t)
<1> DEFINE n == Len(d)
           k == d[n]
           into(i, p) == n = i + 1 /\ d[i].tag = p
           grown == Grown(d[n - 1], k)
<1>1. n \in 2..6 /\ Levels(d)
  BY DEF Shape
<1>2. IsNode(d[n - 1]) /\ k.tag # "absent"
  BY EndNode
<1>3. /\ TextAt(grown, t) = IF k.tag = t THEN k.text ELSE TextAt(d[n - 1], t)
      /\ OptionAt(grown, t) = IF k.tag = t THEN << k.text >> ELSE OptionAt(d[n - 1], t)
      /\ AuthsOf(grown, t) = IF k.tag = t THEN AuthsOf(d[n - 1], t) \o << AuthOf(k) >>
                             ELSE AuthsOf(d[n - 1], t)
  BY <1>2, OneMoreKid
<1>4. /\ Row(e) = IF into(4, "row") THEN grown ELSE Row(d)
      /\ Evaluated(e) = IF into(5, "policy_evaluated") THEN grown ELSE Evaluated(d)
      /\ Identifiers(e) = IF into(4, "identifiers") THEN grown ELSE Identifiers(d)
      /\ Auth(e) = IF into(4, "auth_results") THEN grown ELSE Auth(d)
  BY <1>1, EndParts
<1>5. \A i \in 3..5 : \A p, q : into(i, p) => InPart(d, i, p, q) = d[n - 1]
  <2>1. ASSUME NEW i \in 3..5, n = i + 1
        PROVE  Len(d) >= i /\ n - 1 = i
    <3> HIDE DEF n
    <3>1. n >= i /\ n - 1 = i
      BY <2>1
    <3>2. QED BY <3>1 DEF n
  <2>2. QED BY <2>1 DEF InPart, Open
<1>6. /\ into(4, "row") => Row(d) = d[n - 1]
      /\ into(5, "policy_evaluated") => Evaluated(d) = d[n - 1]
      /\ into(4, "identifiers") => Identifiers(d) = d[n - 1]
      /\ into(4, "auth_results") => Auth(d) = d[n - 1]
  <2>1. 3 \in 3..5 /\ 4 \in 3..5 /\ 5 \in 3..5
    OBVIOUS
  <2> HIDE DEF into, n
  <2>2. QED BY <1>5, <2>1 DEF Row, Evaluated, Identifiers, Auth
<1>7. /\ into(4, "row") <=> n = 5 /\ d[4].tag = "row"
      /\ into(5, "policy_evaluated") <=> n = 6 /\ d[5].tag = "policy_evaluated"
      /\ into(4, "identifiers") <=> n = 5 /\ d[4].tag = "identifiers"
      /\ into(4, "auth_results") <=> n = 5 /\ d[4].tag = "auth_results"
  <2> HIDE DEF n
  <2>1. QED OBVIOUS
<1> HIDE DEF grown, into, k
<1>8. QED BY <1>3, <1>4, <1>6, <1>7 DEF k, n

(* The records, after an end tag.                                          *)
LEMMA EndRecords ==
  ASSUME NEW d, Shape(d), Len(d) > 1, NEW e, e = Ended(d)
  PROVE  Records(e) = IF Len(d) = 3 /\ d[3].tag = "record"
                      THEN Append(Records(d), RecordOf(d[3])) ELSE Records(d)
<1> DEFINE s == Named(Feedback(d), "record")
           k == d[3]
<1>1. Len(d) \in 1..6 /\ Levels(d)
  BY DEF Shape
<1>2. CASE Len(d) = 3
  <2>1. Feedback(e) = Grown(d[2], d[3]) /\ Feedback(d) = d[2] /\ IsNode(d[2])
    <3>1. d[2].tag = "feedback" /\ IsNode(d[2])
      BY <1>1, <1>2 DEF Levels, Shape
    <3>2. Feedback(d) = d[2]
      BY <1>2, <3>1 DEF Feedback, InPart, Open
    <3>3. Feedback(e) = Grown(d[2], d[3])
      <4>1. Len(d) - 1 = 2 /\ 3 = 2 + 1 /\ Len(d) > 1
        BY <1>2
      <4>2. Feedback(e) = IF Len(d) = 2 + 1 /\ d[2].tag = "feedback"
                          THEN Grown(d[Len(d) - 1], d[Len(d)]) ELSE Feedback(d)
        BY EndParts
      <4>3. QED BY <1>2, <3>1, <4>1, <4>2
    <3>4. QED BY <3>1, <3>2, <3>3
  <2>2. /\ s \in Seq(ToSet(d[2].kids))
        /\ Named(Feedback(e), "record") = IF k.tag = "record" THEN Append(s, k) ELSE s
    <3>1. /\ Named(Grown(d[2], k), "record") = IF k.tag = "record" THEN Append(Named(d[2], "record"), k)
                                               ELSE Named(d[2], "record")
          /\ Named(d[2], "record") \in Seq(ToSet(d[2].kids))
      BY <2>1, NamedGrown
    <3>2. QED BY <2>1, <3>1
  <2>3. CASE k.tag = "record"
    <3> DEFINE E == ToSet(d[2].kids) \cup {k}
               f == [x \in E |-> RecordOf(x)]
               c == Mapped(f, s)
               R == {f[x] : x \in E}
    <3>1. s \in Seq(E) /\ k \in E
      BY <2>2, SeqMonotonic
    <3>2. /\ Mapped(f, s) = [i \in DOMAIN s |-> RecordOf(s[i])]
          /\ Mapped(f, Append(s, k)) = [i \in DOMAIN Append(s, k) |-> RecordOf(Append(s, k)[i])]
          /\ f[k] = RecordOf(k)
      <4>1. Append(s, k) \in Seq(E)
        BY <3>1, AppendProperties
      <4>2. \A q \in Seq(E) : Mapped(f, q) = [i \in DOMAIN q |-> RecordOf(q[i])]
        <5>1. \A q \in Seq(E) : \A i \in DOMAIN q : f[q[i]] = RecordOf(q[i])
          OBVIOUS
        <5> HIDE DEF f
        <5>2. QED BY <5>1 DEF Mapped
      <4> HIDE DEF E
      <4>3. f[k] = RecordOf(k)
        BY <3>1
      <4> HIDE DEF f
      <4>4. QED BY <3>1, <4>1, <4>2, <4>3
    <3>3. f[k] \in R /\ \A x \in E : f[x] \in R
      BY <3>1
    <3> HIDE DEF f, E, R, s, k
    <3>4. Mapped(f, Append(s, k)) = c \o << f[k] >>
      BY <3>1, MapAppend
    <3>5. c \in Seq(R)
      <4>1. DOMAIN s = 1..Len(s) /\ Len(s) \in Nat /\ \A i \in 1..Len(s) : s[i] \in E
        BY <3>1, LenProperties
      <4>2. c = [i \in 1..Len(s) |-> c[i]] /\ \A i \in 1..Len(s) : c[i] \in R
        BY <3>3, <4>1 DEF Mapped
      <4> HIDE DEF c
      <4>3. QED BY <4>1, <4>2, IsASeq
    <3> HIDE DEF c
    <3>6. c \o << f[k] >> = Append(c, f[k])
      BY <3>3, <3>5, AppendIsConcat
    <3>7. Records(d) = c /\ Records(e) = Mapped(f, Append(s, k))
      BY <2>2, <2>3, <3>2 DEF Records, c, s
    <3>8. QED BY <1>2, <2>3, <3>2, <3>4, <3>6, <3>7 DEF k
  <2>4. CASE k.tag # "record"
    BY <1>2, <2>2, <2>4 DEF Records
  <2>5. QED BY <2>3, <2>4
<1>3. CASE Len(d) # 3
  <2>1. Feedback(e) = Feedback(d)
    BY <1>3, EndParts
  <2>2. QED BY <1>3, <2>1 DEF Records
<1>4. QED BY <1>2, <1>3

(* A report by its fields.                                                 *)
Report(a, b, c, d, e, f) ==
  [org_name |-> a, report_id |-> b, date_begin |-> c, policy_domain |-> d, policy_p |-> e,
   records |-> f]

(* The report, at an end tag.                                              *)
LEMMA EndReport ==
  ASSUME ParseInv, Len(dom) > 1, dom' = Ended(dom), End
  PROVE  rpt' = Reading(dom')
<1> Shape(dom) /\ StackIs /\ TextIs /\ HasRead /\ LocalsTyped
  BY DEF ParseInv
<1> DEFINE n == Len(dom)
           m == dom[3].tag
           k == dom[4].tag
           name == dom[n].tag
           D == dom
           E == dom'
<1>1. n \in 2..6 /\ Levels(dom)
  BY DEF Shape
<1>2. Last(stack) = name /\ cur_text = dom[n].text
  BY InIs DEF TextIs, Top, Last
<1>3. n = 2 \/ n = 3 \/ n = 4 \/ n = 5 \/ n = 6
  <2> HIDE DEF n
  <2>1. QED BY <1>1
<1>4. /\ TextAt(Metadata(E), "org_name") =
           IF n = 4 /\ m = "report_metadata" /\ name = "org_name" THEN cur_text
           ELSE TextAt(Metadata(D), "org_name")
      /\ TextAt(Metadata(E), "report_id") =
           IF n = 4 /\ m = "report_metadata" /\ name = "report_id" THEN cur_text
           ELSE TextAt(Metadata(D), "report_id")
      /\ TextAt(Dates(E), "begin") =
           IF n = 5 /\ k = "date_range" /\ name = "begin" THEN cur_text
           ELSE TextAt(Dates(D), "begin")
      /\ TextAt(Policy(E), "domain") =
           IF n = 4 /\ m = "policy_published" /\ name = "domain" THEN cur_text
           ELSE TextAt(Policy(D), "domain")
      /\ OptionAt(Policy(E), "p") =
           IF n = 4 /\ m = "policy_published" /\ name = "p" THEN << cur_text >>
           ELSE OptionAt(Policy(D), "p")
  <2>1. \A t :
          /\ TextAt(Metadata(E), t) = IF n = 4 /\ m = "report_metadata" /\ name = t
                                      THEN D[n].text ELSE TextAt(Metadata(D), t)
          /\ TextAt(Dates(E), t) = IF n = 5 /\ k = "date_range" /\ name = t
                                   THEN D[n].text ELSE TextAt(Dates(D), t)
          /\ TextAt(Policy(E), t) = IF n = 4 /\ m = "policy_published" /\ name = t
                                    THEN D[n].text ELSE TextAt(Policy(D), t)
          /\ OptionAt(Policy(E), t) = IF n = 4 /\ m = "policy_published" /\ name = t
                                      THEN << D[n].text >> ELSE OptionAt(Policy(D), t)
    BY EndTexts
  <2> HIDE DEF n, m, k, name, E
  <2>2. QED BY <1>2, <2>1
<1>5. Records(E) = IF n = 3 /\ m = "record" THEN Append(Records(D), RecordOf(D[3])) ELSE Records(D)
  BY EndRecords
<1> DEFINE org == TextAt(Metadata(D), "org_name")
           id == TextAt(Metadata(D), "report_id")
           begin == Number(TextAt(Dates(D), "begin"))
           domain == TextAt(Policy(D), "domain")
           p == OptionAt(Policy(D), "p")
           rs == Records(D)
<1>6. /\ rpt = Report(org, id, begin, domain, p, rs)
      /\ Reading(E) = Report(TextAt(Metadata(E), "org_name"), TextAt(Metadata(E), "report_id"),
                            Number(TextAt(Dates(E), "begin")), TextAt(Policy(E), "domain"),
                            OptionAt(Policy(E), "p"), Records(E))
  BY DEF HasRead, Reading, ReportFrom, Records, Report
<1>11. /\ [rpt EXCEPT !.org_name = cur_text] = Report(cur_text, id, begin, domain, p, rs)
       /\ [rpt EXCEPT !.report_id = cur_text] = Report(org, cur_text, begin, domain, p, rs)
       /\ [rpt EXCEPT !.date_begin = Number(cur_text)] = Report(org, id, Number(cur_text), domain, p, rs)
       /\ [rpt EXCEPT !.policy_domain = cur_text] = Report(org, id, begin, cur_text, p, rs)
       /\ [rpt EXCEPT !.policy_p = << cur_text >>] = Report(org, id, begin, domain, << cur_text >>, rs)
       /\ [rpt EXCEPT !.records = Append(@, RecordOf(D[3]))] =
            Report(org, id, begin, domain, p, Append(rs, RecordOf(D[3])))
  <2> HIDE DEF org, id, begin, domain, p, rs
  <2>1. \A x : /\ [rpt EXCEPT !.org_name = x] = Report(x, id, begin, domain, p, rs)
               /\ [rpt EXCEPT !.report_id = x] = Report(org, x, begin, domain, p, rs)
               /\ [rpt EXCEPT !.date_begin = x] = Report(org, id, x, domain, p, rs)
    BY <1>6 DEF Report
  <2>2. \A x : /\ [rpt EXCEPT !.policy_domain = x] = Report(org, id, begin, x, p, rs)
               /\ [rpt EXCEPT !.policy_p = x] = Report(org, id, begin, domain, x, rs)
               /\ [rpt EXCEPT !.records = x] = Report(org, id, begin, domain, p, x)
    BY <1>6 DEF Report
  <2>3. rpt.records = rs
    BY <1>6 DEF Report
  <2>4. QED BY <2>1, <2>2, <2>3
<1>12. /\ Reading(E) = Report(IF n = 4 /\ m = "report_metadata" /\ name = "org_name" THEN cur_text ELSE org,
                              IF n = 4 /\ m = "report_metadata" /\ name = "report_id" THEN cur_text ELSE id,
                              IF n = 5 /\ k = "date_range" /\ name = "begin" THEN Number(cur_text) ELSE begin,
                              IF n = 4 /\ m = "policy_published" /\ name = "domain" THEN cur_text ELSE domain,
                              IF n = 4 /\ m = "policy_published" /\ name = "p" THEN << cur_text >> ELSE p,
                              IF n = 3 /\ m = "record" THEN Append(rs, RecordOf(D[3])) ELSE rs)
  <2> HIDE DEF n, m, k, name, E
  <2>1. QED BY <1>4, <1>5, <1>6
<1> HIDE DEF E, org, id, begin, domain, p, rs
<1>7. /\ n = 2 => Context = "none"
      /\ n = 3 => Context = IF m = "record" THEN "record" ELSE IF m = "report_metadata" THEN "metadata"
                            ELSE "policy"
      /\ n \in 4..6 => Context = IF k = "date_range" THEN "date_range"
                                 ELSE IF m = "report_metadata" THEN "metadata"
                                 ELSE IF m = "policy_published" THEN "policy"
                                 ELSE IF k = "row" THEN "row"
                                 ELSE IF k = "identifiers" THEN "identifiers" ELSE "auth"
  <2>1. /\ n < 3 => Context = "none"
        /\ n >= 3 /\ m = "report_metadata" =>
             Context = IF n >= 4 /\ k = "date_range" THEN "date_range" ELSE "metadata"
        /\ n >= 3 /\ m = "policy_published" => Context = "policy"
        /\ n = 3 /\ m = "record" => Context = "record"
        /\ n >= 4 /\ k = "row" => Context = "row"
        /\ n >= 4 /\ k = "identifiers" => Context = "identifiers"
        /\ n >= 4 /\ k = "auth_results" => Context = "auth"
    BY ContextIs
  <2>2. /\ n >= 3 => m \in {"report_metadata", "policy_published", "record"}
        /\ n >= 4 => /\ m = "record" => k \in {"row", "identifiers", "auth_results"}
                     /\ k = "date_range" => m = "report_metadata"
    BY <1>1 DEF Levels
  <2> HIDE DEF m, k, name
  <2>3. CASE n = 2
    BY <2>1, <2>3
  <2>4. CASE n = 3
    BY <2>1, <2>2, <2>4
  <2>5. CASE n \in 4..6
    <3> HIDE DEF n
    <3>1. n >= 4 /\ n >= 3 /\ n # 2 /\ n # 3
      BY <2>5
    <3>2. QED BY <2>1, <2>2, <3>1
  <2>6. QED BY <1>3, <2>3, <2>4, <2>5
<1>8. CASE n = 3 /\ m = "record"
  <2>1. name = "record" /\ Context = "record"
    BY <1>7, <1>8
  <2>2. rpt' = [rpt EXCEPT !.records = Append(@, InRecord("record"))]
    BY <1>2, <2>1 DEF End
  <2>3. cur_record[1] = RecordReading(D)
    BY <1>8 DEF HasRead, Open
  <2>4. InRecord("record") = RecordReading(D)
    BY <2>1, <2>3 DEF InRecord, Aligns
  <2>5. RecordReading(D) = RecordOf(D[3])
    <3>1. ~(Len(D) >= 4) /\ ~(Len(D) >= 5)
      BY <1>8
    <3>2. QED BY <3>1 DEF RecordReading, RecordOf, Row, Evaluated, Identifiers, Auth, InPart, Open
  <2>6. rpt' = Report(org, id, begin, domain, p, Append(rs, RecordOf(D[3])))
    BY <1>11, <2>2, <2>4, <2>5
  <2> HIDE DEF name, m, k, n, D
  <2>7. QED BY <1>8, <1>12, <2>6 DEF E
<1>9. CASE ~(n = 3 /\ m = "record")
  <2>1. name # "record"
    BY <1>1, <1>3, <1>9 DEF Levels
  <2>2. rpt' = InReport(name)
    BY <1>2, <1>9, <2>1 DEF End
  <2> HIDE DEF rs
  <2>3. CASE n = 2
    <3>1. rpt' = rpt
      BY <1>7, <2>2, <2>3 DEF InReport
    <3> HIDE DEF name, m, k, n, D
    <3>2. QED BY <1>6, <1>12, <2>3, <3>1 DEF E
  <2>4. CASE n = 3
    <3>1. name \in {"report_metadata", "policy_published"}
      BY <1>1, <1>9, <2>4 DEF Levels
    <3>2. Context \in {"metadata", "policy"}
      BY <1>7, <1>9, <2>4
    <3>3. rpt' = rpt
      BY <2>2, <3>1, <3>2 DEF InReport
    <3> HIDE DEF name, m, k, n, D
    <3>4. QED BY <1>6, <1>9, <1>12, <2>4, <3>3 DEF E
  <2>5. CASE n = 4
    <3>1. /\ name = k
          /\ \/ m = "report_metadata" /\ name \in {"org_name", "report_id", "date_range"}
             \/ m = "policy_published" /\ name \in {"domain", "p"}
             \/ m = "record" /\ name \in {"row", "identifiers", "auth_results"}
      BY <1>1, <2>5 DEF Levels
    <3> HIDE DEF name, m, k, D
    <3>2. n \in 4..6 /\ n # 5 /\ n # 3
      BY <2>5
    <3> HIDE DEF n
    <3>3. CASE m = "report_metadata" /\ name = "org_name"
      <4>1. Context = "metadata"
        BY <1>7, <3>1, <3>2, <3>3
      <4>2. rpt' = Report(cur_text, id, begin, domain, p, rs)
        BY <1>11, <2>2, <3>3, <4>1 DEF InReport
      <4>3. QED BY <1>12, <2>5, <3>2, <3>3, <4>2 DEF E
    <3>4. CASE m = "report_metadata" /\ name = "report_id"
      <4>1. Context = "metadata"
        BY <1>7, <3>1, <3>2, <3>4
      <4>2. rpt' = Report(org, cur_text, begin, domain, p, rs)
        BY <1>11, <2>2, <3>4, <4>1 DEF InReport
      <4>3. QED BY <1>12, <2>5, <3>2, <3>4, <4>2 DEF E
    <3>5. CASE m = "report_metadata" /\ name = "date_range"
      <4>1. Context = "date_range"
        BY <1>7, <3>1, <3>2, <3>5
      <4>2. rpt' = rpt
        BY <2>2, <3>5, <4>1 DEF InReport
      <4>3. QED BY <1>6, <1>12, <2>5, <3>2, <3>5, <4>2 DEF E
    <3>6. CASE m = "policy_published" /\ name = "domain"
      <4>1. Context = "policy"
        BY <1>7, <3>1, <3>2, <3>6
      <4>2. rpt' = Report(org, id, begin, cur_text, p, rs)
        BY <1>11, <2>2, <3>6, <4>1 DEF InReport
      <4>3. QED BY <1>12, <2>5, <3>2, <3>6, <4>2 DEF E
    <3>7. CASE m = "policy_published" /\ name = "p"
      <4>1. Context = "policy"
        BY <1>7, <3>1, <3>2, <3>7
      <4>2. rpt' = Report(org, id, begin, domain, << cur_text >>, rs)
        BY <1>11, <2>2, <3>7, <4>1 DEF InReport
      <4>3. QED BY <1>12, <2>5, <3>2, <3>7, <4>2 DEF E
    <3>8. CASE m = "record" /\ name \in {"row", "identifiers", "auth_results"}
      <4>1. Context \in {"row", "identifiers", "auth"}
        BY <1>7, <3>1, <3>2, <3>8
      <4>2. rpt' = rpt
        BY <2>2, <4>1 DEF InReport
      <4>3. QED BY <1>6, <1>12, <3>2, <3>8, <4>2 DEF E
    <3>9. QED BY <3>1, <3>3, <3>4, <3>5, <3>6, <3>7, <3>8
  <2>6. CASE n = 5 /\ k = "date_range"
    <3>1. name = "begin"
      BY <1>1, <2>6 DEF Levels
    <3> HIDE DEF name, m, k, D
    <3>2. n \in 4..6 /\ n # 4 /\ n # 3
      BY <2>6
    <3> HIDE DEF n
    <3>3. Context = "date_range"
      BY <1>7, <2>6, <3>2
    <3>4. rpt' = Report(org, id, Number(cur_text), domain, p, rs)
      BY <1>11, <2>2, <3>1, <3>3 DEF InReport
    <3>5. QED BY <1>12, <2>6, <3>1, <3>2, <3>4 DEF E
  <2>7. CASE n \in 5..6 /\ k # "date_range"
    <3>0. n >= 5 /\ n >= 4 /\ n # 3 /\ n # 4 /\ n \in 4..6
      <4> HIDE DEF n
      <4>1. QED BY <2>7
    <3>1. k \in {"row", "identifiers", "auth_results"} /\ m = "record"
      BY <1>1, <2>7, <3>0 DEF Levels
    <3> HIDE DEF name, m, k, n, D
    <3>2. Context \in {"row", "identifiers", "auth"}
      BY <1>7, <3>0, <3>1
    <3>3. rpt' = rpt
      BY <2>2, <3>2 DEF InReport
    <3>4. QED BY <1>6, <1>12, <2>7, <3>0, <3>3 DEF E
  <2>8. n = 6 => k # "date_range"
    BY <1>1 DEF Levels
  <2>9. QED BY <1>3, <2>3, <2>4, <2>5, <2>6, <2>7, <2>8
<1>10. QED BY <1>8, <1>9

(* A record by its fields.                                                 *)
Rec(a, b, c, d, e, f, g, h) ==
  [source_ip |-> a, count |-> b, disposition |-> c, dkim_aligned |-> d, spf_aligned |-> e,
   header_from |-> f, auth_dkim |-> g, auth_spf |-> h]

(* A record with one field changed.                                        *)
Having(r, f, x) == [r EXCEPT ![f] = x]

LEMMA RecHaving ==
  ASSUME NEW a, NEW b, NEW c, NEW d, NEW e, NEW f, NEW g, NEW h, NEW x
  PROVE  /\ Having(Rec(a, b, c, d, e, f, g, h), "source_ip", x) = Rec(x, b, c, d, e, f, g, h)
         /\ Having(Rec(a, b, c, d, e, f, g, h), "count", x) = Rec(a, x, c, d, e, f, g, h)
         /\ Having(Rec(a, b, c, d, e, f, g, h), "disposition", x) = Rec(a, b, x, d, e, f, g, h)
         /\ Having(Rec(a, b, c, d, e, f, g, h), "dkim_aligned", x) = Rec(a, b, c, x, e, f, g, h)
         /\ Having(Rec(a, b, c, d, e, f, g, h), "spf_aligned", x) = Rec(a, b, c, d, x, f, g, h)
         /\ Having(Rec(a, b, c, d, e, f, g, h), "header_from", x) = Rec(a, b, c, d, e, x, g, h)
         /\ Having(Rec(a, b, c, d, e, f, g, h), "auth_dkim", x) = Rec(a, b, c, d, e, f, x, h)
         /\ Having(Rec(a, b, c, d, e, f, g, h), "auth_spf", x) = Rec(a, b, c, d, e, f, g, x)
<1> DEFINE r == Rec(a, b, c, d, e, f, g, h)
<1>1. Having(r, "source_ip", x) = Rec(x, b, c, d, e, f, g, h)
  BY DEF Rec, Having
<1>2. Having(r, "count", x) = Rec(a, x, c, d, e, f, g, h)
  BY DEF Rec, Having
<1>3. Having(r, "disposition", x) = Rec(a, b, x, d, e, f, g, h)
  BY DEF Rec, Having
<1>4. Having(r, "dkim_aligned", x) = Rec(a, b, c, x, e, f, g, h)
  BY DEF Rec, Having
<1>5. Having(r, "spf_aligned", x) = Rec(a, b, c, d, x, f, g, h)
  BY DEF Rec, Having
<1>6. Having(r, "header_from", x) = Rec(a, b, c, d, e, x, g, h)
  BY DEF Rec, Having
<1>7. Having(r, "auth_dkim", x) = Rec(a, b, c, d, e, f, x, h)
  BY DEF Rec, Having
<1>8. Having(r, "auth_spf", x) = Rec(a, b, c, d, e, f, g, x)
  BY DEF Rec, Having
<1>9. QED BY <1>1, <1>2, <1>3, <1>4, <1>5, <1>6, <1>7, <1>8

(* The branch of the end handler in a record.                              *)
LEMMA RecordContext ==
  ASSUME ParseInv
  PROVE  LET n == Len(dom)
             m == dom[3].tag
             k == dom[4].tag
         IN  /\ n < 3 \/ m # "record" => Context \in {"none", "date_range", "metadata", "policy"}
             /\ n = 3 /\ m = "record" => Context = "record"
             /\ n >= 4 /\ m = "record" =>
                  Context = IF k = "row" THEN "row" ELSE IF k = "identifiers" THEN "identifiers" ELSE "auth"
<1> DEFINE n == Len(dom)
           m == dom[3].tag
           k == dom[4].tag
<1>1. n \in 1..6 /\ Levels(dom) /\ Shape(dom) /\ StackIs /\ HasRead
  BY DEF ParseInv, Shape
<1>2. /\ n < 3 => Context = "none"
      /\ n >= 3 /\ m = "report_metadata" =>
           Context = IF n >= 4 /\ k = "date_range" THEN "date_range" ELSE "metadata"
      /\ n >= 3 /\ m = "policy_published" => Context = "policy"
      /\ n = 3 /\ m = "record" => Context = "record"
      /\ n >= 4 /\ k = "row" => Context = "row"
      /\ n >= 4 /\ k = "identifiers" => Context = "identifiers"
      /\ n >= 4 /\ k = "auth_results" => Context = "auth"
  BY <1>1, ContextIs
<1>3. /\ n >= 3 => m \in {"report_metadata", "policy_published", "record"}
      /\ n >= 4 /\ m = "record" => k \in {"row", "identifiers", "auth_results"}
  BY <1>1 DEF Levels
<1>4. n < 3 \/ n >= 3
  <2> HIDE DEF n
  <2>1. QED BY <1>1
<1> HIDE DEF m, k, n
<1>5. n < 3 \/ m # "record" => Context \in {"none", "date_range", "metadata", "policy"}
  BY <1>2, <1>3, <1>4
<1>6. n >= 4 /\ m = "record" =>
        Context = IF k = "row" THEN "row" ELSE IF k = "identifiers" THEN "identifiers" ELSE "auth"
  BY <1>2, <1>3
<1>7. QED BY <1>2, <1>5, <1>6 DEF n, m, k

(* The record, at an end tag inside it.                                    *)
LEMMA EndInRecord ==
  ASSUME ParseInv, dom' = Ended(dom), Len(dom) >= 4, dom[3].tag = "record"
  PROVE  InRecord(dom[Len(dom)].tag) = RecordReading(dom')
<1> Shape(dom) /\ StackIs /\ TextIs /\ HasRead
  BY DEF ParseInv
<1> DEFINE n == Len(dom)
           k == dom[4].tag
           l == dom[5].tag
           name == dom[n].tag
           D == dom
           E == dom'
<1>1. n \in 1..6 /\ Levels(dom) /\ cur_text = dom[n].text
  BY DEF Shape, TextIs, Top, Last
<1>2. n \in {4, 5, 6}
  <2> HIDE DEF n
  <2>1. n >= 4
    BY DEF n
  <2>2. QED BY <1>1, <2>1
<1>3. \A t :
        /\ TextAt(Row(E), t) = IF n = 5 /\ k = "row" /\ name = t THEN D[n].text ELSE TextAt(Row(D), t)
        /\ TextAt(Evaluated(E), t) = IF n = 6 /\ l = "policy_evaluated" /\ name = t
                                    THEN D[n].text ELSE TextAt(Evaluated(D), t)
        /\ OptionAt(Identifiers(E), t) = IF n = 5 /\ k = "identifiers" /\ name = t
                                        THEN << D[n].text >> ELSE OptionAt(Identifiers(D), t)
        /\ AuthsOf(Auth(E), t) = IF n = 5 /\ k = "auth_results" /\ name = t
                                THEN AuthsOf(Auth(D), t) \o << AuthOf(D[n]) >> ELSE AuthsOf(Auth(D), t)
  BY EndRecordTexts
<1> DEFINE ip == TextAt(Row(D), "source_ip")
           count == CountOf(TextAt(Row(D), "count"))
           disposition == TextAt(Evaluated(D), "disposition")
           from == OptionAt(Identifiers(D), "header_from")
           ad == AuthsOf(Auth(D), "dkim")
           ap == AuthsOf(Auth(D), "spf")
           auth == << AuthOf(D[n]) >>
           add == ad \o auth
           asd == ap \o auth
           r == cur_record[1]
<1>15. PICK dkim, spf, pass : /\ dkim = (TextAt(Evaluated(D), "dkim") = Pass)
                             /\ spf = (TextAt(Evaluated(D), "spf") = Pass)
                             /\ pass = (cur_text = Pass)
  OBVIOUS
<1>4. r = Rec(ip, count, disposition, dkim, spf, from, ad, ap)
  <2>1. n >= 3
    <3> HIDE DEF n
    <3>1. QED BY <1>2
  <2>2. r = RecordReading(D)
    BY <2>1 DEF HasRead, Open
  <2> HIDE DEF r
  <2>3. QED BY <1>15, <2>2 DEF RecordReading, RecordFrom, Rec
<1>14. RecordReading(E) = Rec(TextAt(Row(E), "source_ip"), CountOf(TextAt(Row(E), "count")),
                             TextAt(Evaluated(E), "disposition"), TextAt(Evaluated(E), "dkim") = Pass,
                             TextAt(Evaluated(E), "spf") = Pass, OptionAt(Identifiers(E), "header_from"),
                             AuthsOf(Auth(E), "dkim"), AuthsOf(Auth(E), "spf"))
  BY DEF RecordReading, RecordFrom, Rec
<1>5. RecordReading(E) =
        Rec(IF n = 5 /\ k = "row" /\ name = "source_ip" THEN cur_text ELSE ip,
            IF n = 5 /\ k = "row" /\ name = "count" THEN CountOf(cur_text) ELSE count,
            IF n = 6 /\ l = "policy_evaluated" /\ name = "disposition" THEN cur_text ELSE disposition,
            IF n = 6 /\ l = "policy_evaluated" /\ name = "dkim" THEN pass ELSE dkim,
            IF n = 6 /\ l = "policy_evaluated" /\ name = "spf" THEN pass ELSE spf,
            IF n = 5 /\ k = "identifiers" /\ name = "header_from" THEN << cur_text >> ELSE from,
            IF n = 5 /\ k = "auth_results" /\ name = "dkim" THEN add ELSE ad,
            IF n = 5 /\ k = "auth_results" /\ name = "spf" THEN asd ELSE ap)
  <2>7. PICK dkimE, spfE : /\ dkimE = (TextAt(Evaluated(E), "dkim") = Pass)
                           /\ spfE = (TextAt(Evaluated(E), "spf") = Pass)
    OBVIOUS
  <2> DEFINE c1 == n = 6 /\ l = "policy_evaluated" /\ name = "dkim"
             c2 == n = 6 /\ l = "policy_evaluated" /\ name = "spf"
  <2>1. (c1 => dkimE = pass) /\ (~c1 => dkimE = dkim)
    <3> HIDE DEF n, k, l, name, E
    <3>1. QED BY <1>1, <1>3, <1>15, <2>7
  <2>2. (c2 => spfE = pass) /\ (~c2 => spfE = spf)
    <3> HIDE DEF n, k, l, name, E
    <3>1. QED BY <1>1, <1>3, <1>15, <2>7
  <2>3. /\ TextAt(Row(E), "source_ip") = IF n = 5 /\ k = "row" /\ name = "source_ip" THEN cur_text ELSE ip
        /\ CountOf(TextAt(Row(E), "count")) =
             IF n = 5 /\ k = "row" /\ name = "count" THEN CountOf(cur_text) ELSE count
        /\ TextAt(Evaluated(E), "disposition") =
             IF n = 6 /\ l = "policy_evaluated" /\ name = "disposition" THEN cur_text ELSE disposition
        /\ OptionAt(Identifiers(E), "header_from") =
             IF n = 5 /\ k = "identifiers" /\ name = "header_from" THEN << cur_text >> ELSE from
        /\ AuthsOf(Auth(E), "dkim") = IF n = 5 /\ k = "auth_results" /\ name = "dkim" THEN add ELSE ad
        /\ AuthsOf(Auth(E), "spf") = IF n = 5 /\ k = "auth_results" /\ name = "spf" THEN asd ELSE ap
    <3> HIDE DEF n, k, l, name, E
    <3>1. QED BY <1>1, <1>3, <1>15, <2>7
  <2>4. RecordReading(E) = Rec(TextAt(Row(E), "source_ip"), CountOf(TextAt(Row(E), "count")),
                               TextAt(Evaluated(E), "disposition"), dkimE, spfE,
                               OptionAt(Identifiers(E), "header_from"),
                               AuthsOf(Auth(E), "dkim"), AuthsOf(Auth(E), "spf"))
    BY <1>14, <2>7
  <2>5. dkimE = (IF c1 THEN pass ELSE dkim) /\ spfE = (IF c2 THEN pass ELSE spf)
    <3> HIDE DEF c1, c2
    <3>1. QED BY <2>1, <2>2
  <2> HIDE DEF n, k, l, name, E, ip, count, disposition, from, ad, ap, add, asd
  <2>6. QED BY <2>3, <2>4, <2>5 DEF c1, c2
<1>6. (n >= 4 /\ dom[3].tag = "record") /\
      Context = IF k = "row" THEN "row" ELSE IF k = "identifiers" THEN "identifiers" ELSE "auth"
  BY RecordContext
<1>7. /\ n = 4 => name = k /\ name \in {"row", "identifiers", "auth_results"}
      /\ n = 5 => \/ k = "row" /\ name \in {"source_ip", "count", "policy_evaluated"}
                  \/ k = "identifiers" /\ name = "header_from"
                  \/ k = "auth_results" /\ name \in {"dkim", "spf"}
      /\ n = 6 => \/ k = "row" /\ l = "policy_evaluated" /\ name \in {"disposition", "dkim", "spf"}
                  \/ k = "auth_results" /\ l \in {"dkim", "spf"} /\ name \in {"domain", "result"}
  <2>1. dom[4].tag \in {"row", "identifiers", "auth_results"}
    BY <1>1 DEF Levels
  <2>2. CASE n = 4
    BY <2>1, <2>2
  <2>3. CASE n = 5
    BY <1>1, <2>1, <2>3 DEF Levels
  <2>4. CASE n = 6
    BY <1>1, <2>1, <2>4 DEF Levels
  <2>5. QED BY <1>2, <2>2, <2>3, <2>4
<1>8. n = 5 /\ k = "auth_results" =>
        (name = "dkim" => cur_dkim = auth) /\ (name = "spf" => cur_spf = auth)
  BY DEF HasRead, AuthReading, Open
<1> HIDE DEF n, k, l, name, D, E, ip, count, disposition, from, ad, ap, auth, r
<1> HIDE DEF add, asd
<1>10. \A x : /\ Having(r, "source_ip", x) = Rec(x, count, disposition, dkim, spf, from, ad, ap)
            /\ Having(r, "count", x) = Rec(ip, x, disposition, dkim, spf, from, ad, ap)
            /\ Having(r, "disposition", x) = Rec(ip, count, x, dkim, spf, from, ad, ap)
            /\ Having(r, "dkim_aligned", x) = Rec(ip, count, disposition, x, spf, from, ad, ap)
            /\ Having(r, "spf_aligned", x) = Rec(ip, count, disposition, dkim, x, from, ad, ap)
            /\ Having(r, "header_from", x) = Rec(ip, count, disposition, dkim, spf, x, ad, ap)
            /\ Having(r, "auth_dkim", x) = Rec(ip, count, disposition, dkim, spf, from, x, ap)
            /\ Having(r, "auth_spf", x) = Rec(ip, count, disposition, dkim, spf, from, ad, x)
  BY <1>4, RecHaving
<1>11. r.auth_dkim = ad /\ r.auth_spf = ap
  BY <1>4 DEF Rec
<1>12. InRecord(name) = RecordReading(E)
  <2>1. CASE n = 4
    <3>1. InRecord(name) = r
      BY <1>6, <1>7, <2>1 DEF InRecord, Aligns, r
    <3>2. QED BY <1>4, <1>5, <2>1, <3>1
  <2>2. CASE n = 5 /\ k = "row"
    <3>1. Context = "row"
      BY <1>6, <2>2
    <3>2. CASE name = "source_ip"
      <4>1. InRecord(name) = Having(r, "source_ip", cur_text)
        BY <3>1, <3>2 DEF InRecord, Aligns, r, Having
      <4>2. QED BY <1>5, <1>10, <2>2, <3>2, <4>1
    <3>3. CASE name = "count"
      <4>1. InRecord(name) = Having(r, "count", CountOf(cur_text))
        BY <3>1, <3>3 DEF InRecord, Aligns, r, Having
      <4>2. QED BY <1>5, <1>10, <2>2, <3>3, <4>1
    <3>4. CASE name = "policy_evaluated"
      <4>1. InRecord(name) = r
        BY <3>1, <3>4 DEF InRecord, Aligns, r
      <4>2. QED BY <1>4, <1>5, <2>2, <3>4, <4>1
    <3>5. QED BY <1>7, <2>2, <3>2, <3>3, <3>4
  <2>3. CASE n = 5 /\ k = "identifiers"
    <3>1. Context = "identifiers" /\ name = "header_from"
      BY <1>6, <1>7, <2>3
    <3>2. InRecord(name) = Having(r, "header_from", << cur_text >>)
      BY <3>1 DEF InRecord, Aligns, r, Having
    <3>3. QED BY <1>5, <1>10, <2>3, <3>1, <3>2
  <2>4. CASE n = 5 /\ k = "auth_results"
    <3>1. Context = "auth"
      BY <1>6, <2>4
    <3>2. CASE name = "dkim"
      <4>1. InRecord(name) = Having(r, "auth_dkim", r.auth_dkim \o auth)
        BY <1>8, <2>4, <3>1, <3>2 DEF InRecord, Aligns, r, Having
      <4>2. InRecord(name) = Rec(ip, count, disposition, dkim, spf, from, add, ap)
        BY <1>10, <1>11, <4>1 DEF add, asd
      <4>3. n # 6 /\ k # "row" /\ k # "identifiers" /\ name # "spf"
        BY <2>4, <3>2
      <4>4. RecordReading(E) = Rec(ip, count, disposition, dkim, spf, from, add, ap)
        BY <1>5, <2>4, <3>2, <4>3
      <4>5. QED BY <4>2, <4>4
    <3>3. CASE name = "spf"
      <4>1. InRecord(name) = Having(r, "auth_spf", r.auth_spf \o auth)
        BY <1>8, <2>4, <3>1, <3>3 DEF InRecord, Aligns, r, Having
      <4>2. InRecord(name) = Rec(ip, count, disposition, dkim, spf, from, ad, asd)
        BY <1>10, <1>11, <4>1 DEF add, asd
      <4>3. QED BY <1>5, <2>4, <3>3, <4>2
    <3>4. QED BY <1>7, <2>4, <3>2, <3>3
  <2>5. CASE n = 6 /\ k = "row"
    <3>1. Context = "row" /\ l = "policy_evaluated"
      BY <1>6, <1>7, <2>5
    <3>2. CASE name = "disposition"
      <4>1. InRecord(name) = Having(r, "disposition", cur_text)
        BY <3>1, <3>2 DEF InRecord, Aligns, r, Having
      <4>2. QED BY <1>5, <1>10, <2>5, <3>1, <3>2, <4>1
    <3>3. CASE name = "dkim"
      <4>1. InRecord(name) = Having(r, "dkim_aligned", pass)
        BY <1>15, <3>1, <3>3 DEF InRecord, Aligns, r, Having
      <4>2. QED BY <1>5, <1>10, <2>5, <3>1, <3>3, <4>1
    <3>4. CASE name = "spf"
      <4>1. InRecord(name) = Having(r, "spf_aligned", pass)
        BY <1>15, <3>1, <3>4 DEF InRecord, Aligns, r, Having
      <4>2. QED BY <1>5, <1>10, <2>5, <3>1, <3>4, <4>1
    <3>5. QED BY <1>7, <2>5, <3>2, <3>3, <3>4
  <2>6. CASE n = 6 /\ k = "auth_results"
    <3>1. Context = "auth" /\ name \in {"domain", "result"} /\ l # "policy_evaluated"
      BY <1>6, <1>7, <2>6
    <3>2. InRecord(name) = r
      BY <3>1 DEF InRecord, Aligns, r
    <3>3. QED BY <1>4, <1>5, <2>6, <3>1, <3>2
  <2>7. QED BY <1>2, <1>7, <2>1, <2>2, <2>3, <2>4, <2>5, <2>6
<1>13. QED BY <1>12 DEF name, n, E

(* cur_record, after an end tag: pushed at its own, updated inside.        *)
LEMMA EndRecord ==
  ASSUME ParseInv, Len(dom) > 1, dom' = Ended(dom), End
  PROVE  cur_record' = IF Open(dom', 3, "record") THEN << RecordReading(dom') >> ELSE << >>
<1> DEFINE n == Len(dom)
           m == dom[3].tag
           k == dom[4].tag
           name == dom[n].tag
<1>1. n \in 2..6 /\ Levels(dom) /\ Last(stack) = name
  BY InIs DEF ParseInv, Shape
<1>2. /\ Len(dom') = n - 1 /\ (\A i \in 1..(n - 2) : dom'[i] = dom[i])
      /\ dom'[n - 1] = Grown(dom[n - 1], dom[n])
  BY EndShape DEF ParseInv
<1>3. /\ n < 3 \/ m # "record" => Context \in {"none", "date_range", "metadata", "policy"}
      /\ n = 3 /\ m = "record" => Context = "record"
      /\ n >= 4 /\ m = "record" =>
           Context = IF k = "row" THEN "row" ELSE IF k = "identifiers" THEN "identifiers" ELSE "auth"
  BY RecordContext
<1>4. cur_record = IF n >= 3 /\ m = "record" THEN << RecordReading(dom) >> ELSE << >>
  BY DEF ParseInv, HasRead, Open
<1>5. n = 2 \/ n = 3 \/ n >= 4
  <2> HIDE DEF n
  <2>1. QED BY <1>1
<1>6. CASE n >= 4 /\ m = "record"
  <2>1. Open(dom', 3, "record")
    <3>1. dom'[3].tag = dom[3].tag
      <4>1. CASE n = 4
        <5>1. n - 1 = 3
          BY <4>1
        <5>2. IsNode(dom[3])
          BY <1>1, <1>6 DEF ParseInv, Shape
        <5>3. dom'[3] = Grown(dom[3], dom[n])
          BY <1>2, <5>1
        <5> HIDE DEF n
        <5>4. QED BY <5>2, <5>3, GrownShape
      <4>2. CASE n # 4
        <5>1. 3 \in 1..(n - 2)
          <6> HIDE DEF n
          <6>1. QED BY <1>1, <1>6, <4>2
        <5>2. QED BY <1>2, <5>1
      <4>3. QED BY <4>1, <4>2
    <3>2. Len(dom') >= 3
      <4> HIDE DEF n
      <4>1. n - 1 >= 3
        BY <1>1, <1>6
      <4>2. QED BY <1>2, <4>1
    <3>3. QED BY <1>6, <3>1, <3>2 DEF Open
  <2>2. InRecord(name) = RecordReading(dom')
    BY <1>6, EndInRecord
  <2>3. Context \in {"row", "identifiers", "auth"} /\ name # "record"
    <3>1. name # "record"
      <4>1. n = 4 \/ n = 5 \/ n = 6
        <5> HIDE DEF n
        <5>1. QED BY <1>1, <1>6
      <4>2. CASE n = 4
        BY <1>1, <4>2 DEF Levels
      <4>3. CASE n = 5
        BY <1>1, <4>3 DEF Levels
      <4>4. CASE n = 6
        BY <1>1, <4>4 DEF Levels
      <4>5. QED BY <4>1, <4>2, <4>3, <4>4
    <3>2. QED BY <1>3, <1>6, <3>1
  <2>4. cur_record' = << InRecord(name) >>
    BY <1>1, <2>3 DEF End
  <2>5. QED BY <2>1, <2>2, <2>4
<1>7. CASE n = 3 /\ m = "record"
  <2>1. Context = "record" /\ name = "record"
    BY <1>3, <1>7
  <2>2. cur_record' = << >>
    BY <1>1, <2>1 DEF End
  <2>3. ~Open(dom', 3, "record")
    <3>1. ~(n - 1 >= 3)
      BY <1>7
    <3>2. QED BY <1>2, <3>1 DEF Open
  <2>4. QED BY <2>2, <2>3
<1>8. CASE n < 3 \/ m # "record"
  <2>1. Context \notin {"row", "identifiers", "auth", "record"} /\ cur_record = << >>
    BY <1>3, <1>4, <1>8
  <2>2. cur_record' = << >>
    BY <2>1 DEF End
  <2>3. ~Open(dom', 3, "record")
    <3> SUFFICES ASSUME Open(dom', 3, "record") PROVE FALSE
      OBVIOUS
    <3>1. n - 1 >= 3 /\ n >= 4
      <4>1. n - 1 >= 3
        BY <1>2 DEF Open
      <4> HIDE DEF n
      <4>2. QED BY <1>1, <4>1
    <3>2. dom'[3].tag = dom[3].tag
      <4>1. CASE n = 4
        <5>1. n - 1 = 3
          BY <4>1
        <5>2. IsNode(dom[3])
          BY <1>1, <4>1 DEF ParseInv, Shape
        <5>3. dom'[3] = Grown(dom[3], dom[n])
          BY <1>2, <5>1
        <5> HIDE DEF n
        <5>4. QED BY <5>2, <5>3, GrownShape
      <4>2. CASE n # 4
        <5>1. 3 \in 1..(n - 2)
          <6> HIDE DEF n
          <6>1. QED BY <1>1, <3>1, <4>2
        <5>2. QED BY <1>2, <5>1
      <4>3. QED BY <4>1, <4>2
    <3>3. m = "record" /\ ~(n < 3)
      <4>1. m = "record"
        BY <3>2 DEF Open
      <4> HIDE DEF n
      <4>2. QED BY <1>1, <3>1, <4>1
    <3>4. QED BY <1>8, <3>3
  <2>4. QED BY <2>2, <2>3
<1>9. QED
  <2>1. n < 3 \/ n = 3 \/ n >= 4
    <3> HIDE DEF n
    <3>1. QED BY <1>1
  <2>2. QED BY <1>6, <1>7, <1>8, <2>1

(* A result's domain and word, and the result once pushed.                 *)
LEMMA EndAuth ==
  ASSUME ParseInv, Len(dom) > 1, dom' = Ended(dom), NEW t \in {"dkim", "spf"}
  PROVE  InAuth(t, dom[Len(dom)].tag, AuthReading(dom, t)) = AuthReading(dom', t)
<1> DEFINE n == Len(dom)
           l == dom[5]
           name == dom[n].tag
           opt == AuthReading(dom, t)
<1> Shape(dom) /\ StackIs /\ TextIs /\ HasRead
  BY DEF ParseInv
<1>1. n \in 2..6 /\ Levels(dom) /\ cur_text = dom[n].text
  BY DEF Shape, TextIs, Top, Last
<1>2. /\ Len(dom') = n - 1 /\ (\A i \in 1..(n - 2) : dom'[i] = dom[i])
      /\ dom'[n - 1] = Grown(dom[n - 1], dom[n])
  BY EndShape
<1>3. n >= 4 /\ dom[4].tag = "auth_results" => Context = "auth"
  BY ContextIs
<1>4. n < 5 \/ n = 5 \/ n = 6
  <2> HIDE DEF n
  <2>1. QED BY <1>1
<1>5. CASE n < 5
  <2>1. opt = << >>
    <3>1. ~(n >= 5)
      <4> HIDE DEF n
      <4>1. QED BY <1>1, <1>5
    <3>2. QED BY <3>1 DEF AuthReading, Open
  <2>2. AuthReading(dom', t) = << >>
    <3>1. ~(n - 1 >= 5)
      <4> HIDE DEF n
      <4>1. QED BY <1>1, <1>5
    <3>2. QED BY <1>2, <3>1 DEF AuthReading, Open
  <2>3. QED BY <2>1, <2>2 DEF InAuth
<1>6. CASE n = 5
  <2>1. AuthReading(dom', t) = << >>
    <3>1. ~(n - 1 >= 5)
      BY <1>6
    <3>2. QED BY <1>2, <3>1 DEF AuthReading, Open
  <2>2. CASE dom[4].tag = "auth_results" /\ l.tag = t
    <3>1. Context = "auth" /\ name = t
      BY <1>3, <1>6, <2>2
    <3>2. InAuth(t, name, opt) = << >>
      BY <3>1 DEF InAuth
    <3>3. QED BY <2>1, <3>2
  <2>3. CASE ~(dom[4].tag = "auth_results" /\ l.tag = t)
    <3>1. opt = << >>
      BY <2>3 DEF AuthReading, Open
    <3>2. QED BY <2>1, <3>1 DEF InAuth
  <2>4. QED BY <2>2, <2>3
<1>7. CASE n = 6
  <2>1. /\ n - 1 = 5 /\ dom'[5] = Grown(l, dom[6]) /\ dom'[4] = dom[4] /\ IsNode(l)
        /\ n >= 5 /\ n >= 4 /\ dom[6].tag # "absent" /\ Len(dom') = 5
    <3>1. n - 1 = 5 /\ 4 \in 1..(n - 2) /\ 5 \in 1..n
      BY <1>7
    <3>2. dom[6].tag # "absent"
      BY <1>7, EndNode
    <3>3. dom'[5] = Grown(l, dom[6])
      BY <1>2, <1>7, <3>1
    <3>4. QED BY <1>2, <1>7, <3>1, <3>2, <3>3 DEF Shape
  <2>2. l.tag = dom'[5].tag
    BY <2>1, GrownShape
  <2>3. CASE dom[4].tag = "auth_results" /\ l.tag = t
    <3>1. Context = "auth" /\ name \in {"domain", "result"} /\ name # t
      BY <1>1, <1>3, <1>7, <2>1, <2>3 DEF Levels
    <3>2. opt = << AuthOf(l) >> /\ opt # << >> /\ opt[1] = AuthOf(l)
      BY <1>7, <2>3 DEF AuthReading, Open
    <3>3. AuthReading(dom', t) = << AuthOf(Grown(l, dom[6])) >>
      BY <2>1, <2>2, <2>3 DEF AuthReading, Open
    <3>4. InAuth(t, name, opt) = << [AuthOf(l) EXCEPT ![name] = cur_text] >>
      BY <3>1, <3>2 DEF InAuth
    <3>5. \A x : TextAt(Grown(l, dom[6]), x) = IF name = x THEN cur_text ELSE TextAt(l, x)
      <4>1. name = dom[6].tag /\ cur_text = dom[6].text
        BY <1>1, <1>7
      <4>2. \A x : TextAt(Grown(l, dom[6]), x) = IF dom[6].tag = x THEN dom[6].text ELSE TextAt(l, x)
        <5>1. IsNode(l) /\ dom[6].tag # "absent"
          BY <2>1
        <5> HIDE DEF l
        <5>2. QED BY <5>1, OneMoreKid
      <4> HIDE DEF name, l
      <4>3. QED BY <4>1, <4>2
    <3>6. [AuthOf(l) EXCEPT ![name] = cur_text] = AuthOf(Grown(l, dom[6]))
      <4> DEFINE a == TextAt(l, "domain")
                 b == TextAt(l, "result")
                 g == Grown(l, dom[6])
      <4>1. AuthOf(l) = [domain |-> a, result |-> b]
        BY DEF AuthOf
      <4>2. AuthOf(g) = [domain |-> IF name = "domain" THEN cur_text ELSE a,
                         result |-> IF name = "result" THEN cur_text ELSE b]
        BY <3>5 DEF AuthOf
      <4>3. name = "domain" \/ name = "result"
        BY <3>1
      <4> HIDE DEF a, b, g, name
      <4>4. QED BY <4>1, <4>2, <4>3 DEF g
    <3>7. QED BY <3>3, <3>4, <3>6
  <2>4. CASE ~(dom[4].tag = "auth_results" /\ l.tag = t)
    <3>1. opt = << >>
      BY <2>4 DEF AuthReading, Open
    <3>2. AuthReading(dom', t) = << >>
      BY <2>1, <2>2, <2>4 DEF AuthReading, Open
    <3>3. QED BY <3>1, <3>2 DEF InAuth
  <2>5. QED BY <2>3, <2>4
<1>8. QED BY <1>4, <1>5, <1>6, <1>7

(* The values of a record's and a result's fields.                         *)
LEMMA HavingTyped ==
  ASSUME NEW r \in RecordType
  PROVE  /\ \A x \in Texts : /\ Having(r, "source_ip", x) \in RecordType
                             /\ Having(r, "disposition", x) \in RecordType
                             /\ Having(r, "header_from", << x >>) \in RecordType
         /\ \A x \in {0, 7} : Having(r, "count", x) \in RecordType
         /\ \A x \in BOOLEAN : /\ Having(r, "dkim_aligned", x) \in RecordType
                               /\ Having(r, "spf_aligned", x) \in RecordType
         /\ \A x \in Seq(AuthType) : /\ Having(r, "auth_dkim", r.auth_dkim \o x) \in RecordType
                                     /\ Having(r, "auth_spf", r.auth_spf \o x) \in RecordType
<1>1. ASSUME NEW x \in Texts
      PROVE  /\ Having(r, "source_ip", x) \in RecordType
             /\ Having(r, "disposition", x) \in RecordType
             /\ Having(r, "header_from", << x >>) \in RecordType
  <2>1. Having(r, "source_ip", x) \in RecordType /\ Having(r, "disposition", x) \in RecordType
    BY DEF Having, RecordType
  <2>2. << x >> \in {<< >>} \cup {<<t>> : t \in Texts}
    OBVIOUS
  <2>3. Having(r, "header_from", << x >>) \in RecordType
    <3> DEFINE y == << x >>
    <3>1. y \in {<< >>} \cup {<<t>> : t \in Texts}
      BY <2>2
    <3> HIDE DEF y
    <3>2. Having(r, "header_from", y) \in RecordType
      BY <3>1 DEF Having, RecordType
    <3>3. QED BY <3>2 DEF y
  <2>4. QED BY <2>1, <2>3
<1>2. \A x \in {0, 7} : Having(r, "count", x) \in RecordType
  BY DEF Having, RecordType
<1>3. \A x \in BOOLEAN : /\ Having(r, "dkim_aligned", x) \in RecordType
                         /\ Having(r, "spf_aligned", x) \in RecordType
  BY DEF Having, RecordType
<1>4. ASSUME NEW x \in Seq(AuthType)
      PROVE  /\ Having(r, "auth_dkim", r.auth_dkim \o x) \in RecordType
             /\ Having(r, "auth_spf", r.auth_spf \o x) \in RecordType
  <2>1. r.auth_dkim \in Seq(AuthType) /\ r.auth_spf \in Seq(AuthType)
    BY DEF RecordType
  <2>2. r.auth_dkim \o x \in Seq(AuthType) /\ r.auth_spf \o x \in Seq(AuthType)
    BY <2>1, ConcatLen
  <2>3. \A y \in Seq(AuthType) : /\ Having(r, "auth_dkim", y) \in RecordType
                                 /\ Having(r, "auth_spf", y) \in RecordType
    BY DEF Having, RecordType
  <2>4. QED BY <2>2, <2>3
<1>5. QED BY <1>1, <1>2, <1>3, <1>4

(* The types of the locals, after an end tag.                              *)
LEMMA EndLocals ==
  ASSUME ParseInv, Len(dom) > 1, End
  PROVE  /\ cur_record' \in Seq(RecordType)
         /\ cur_dkim' \in Seq(AuthType) /\ cur_spf' \in Seq(AuthType)
<1> DEFINE name == dom[Len(dom)].tag
<1>1. LocalsTyped /\ Last(stack) = name /\ cur_text \in {NoText} \cup Words(name)
  BY InIs DEF ParseInv, TextIs, Top, Last
<1> HIDE DEF name
<1>2. /\ name \notin {"count", "begin"} => cur_text \in Texts
      /\ CountOf(cur_text) \in {0, 7} /\ (cur_text = Pass) \in BOOLEAN
  <2>1. name \notin {"count", "begin"} => cur_text \in Texts
    BY <1>1 DEF Words, Texts
  <2>2. \A v : CountOf(v) \in {0, 7}
    BY DEF CountOf, Number
  <2>3. QED BY <2>1, <2>2
<1>3. ASSUME cur_record # << >>
      PROVE  InRecord(name) \in RecordType
  <2> DEFINE r == cur_record[1]
  <2>1. r \in RecordType
    <3>1. /\ Len(cur_record) \in Nat /\ Len(cur_record) # 0
          /\ \A i \in 1..Len(cur_record) : cur_record[i] \in RecordType
      BY <1>1, <1>3, LenProperties, EmptySeq DEF LocalsTyped
    <3>2. QED BY <3>1
  <2>2. cur_dkim \in Seq(AuthType) /\ cur_spf \in Seq(AuthType)
    BY <1>1 DEF LocalsTyped
  <2> HIDE DEF r
  <2>3. CASE Context = "row"
    <3>1. \/ name = "source_ip" /\ InRecord(name) = Having(r, "source_ip", cur_text)
          \/ name = "disposition" /\ InRecord(name) = Having(r, "disposition", cur_text)
          \/ name = "count" /\ InRecord(name) = Having(r, "count", CountOf(cur_text))
          \/ name = "dkim" /\ InRecord(name) = Having(r, "dkim_aligned", cur_text = Pass)
          \/ name = "spf" /\ InRecord(name) = Having(r, "spf_aligned", cur_text = Pass)
          \/ InRecord(name) = r
      BY <2>3 DEF InRecord, Aligns, Having, r
    <3>2. QED BY <1>2, <2>1, <3>1, HavingTyped
  <2>4. CASE Context = "identifiers"
    <3>1. \/ name = "header_from" /\ InRecord(name) = Having(r, "header_from", << cur_text >>)
          \/ InRecord(name) = r
      BY <2>4 DEF InRecord, Aligns, Having, r
    <3>2. QED BY <1>2, <2>1, <3>1, HavingTyped
  <2>5. CASE Context = "auth"
    <3>1. \/ InRecord(name) = Having(r, "auth_dkim", r.auth_dkim \o cur_dkim)
          \/ InRecord(name) = Having(r, "auth_spf", r.auth_spf \o cur_spf)
          \/ InRecord(name) = r
      BY <2>5 DEF InRecord, Aligns, Having, r
    <3>2. QED BY <2>1, <2>2, <3>1, HavingTyped
  <2>6. CASE Context \notin {"row", "identifiers", "auth"}
    <3>1. InRecord(name) = r
      BY <2>6 DEF InRecord, Aligns, r
    <3>2. QED BY <2>1, <3>1
  <2>7. QED BY <2>3, <2>4, <2>5, <2>6
<1>4. Context \in {"row", "identifiers", "auth", "record"} => cur_record # << >>
  BY DEF Context
<1>5. cur_record' \in Seq(RecordType)
  <2>1. \/ cur_record' = << >> \/ cur_record' = cur_record
        \/ cur_record # << >> /\ cur_record' = << InRecord(name) >>
    BY <1>1, <1>4 DEF End
  <2>2. << >> \in Seq(RecordType) /\ \A x \in RecordType : << x >> \in Seq(RecordType)
    OBVIOUS
  <2>3. QED BY <1>1, <1>3, <2>1, <2>2 DEF LocalsTyped
<1>6. ASSUME NEW t, NEW opt \in Seq(AuthType)
      PROVE  InAuth(t, name, opt) \in Seq(AuthType)
  <2>1. << >> \in Seq(AuthType) /\ \A x \in AuthType : << x >> \in Seq(AuthType)
    OBVIOUS
  <2>2. CASE opt # << >> /\ name \in {"domain", "result"}
    <3>1. opt[1] \in AuthType
      <4>1. Len(opt) \in Nat /\ Len(opt) # 0 /\ \A i \in 1..Len(opt) : opt[i] \in AuthType
        BY <2>2, LenProperties, EmptySeq
      <4>2. QED BY <4>1
    <3>2. [opt[1] EXCEPT ![name] = cur_text] \in AuthType
      <4>1. cur_text \in Texts
        BY <1>2, <2>2
      <4> DEFINE o == opt[1]
      <4> HIDE DEF o
      <4>2. o \in AuthType
        BY <3>1 DEF o
      <4>3. [o EXCEPT ![name] = cur_text] \in AuthType
        BY <2>2, <4>1, <4>2 DEF AuthType
      <4>4. QED BY <4>3 DEF o
    <3> DEFINE x == [opt[1] EXCEPT ![name] = cur_text]
    <3>3. InAuth(t, name, opt) \in {opt, << >>, << x >>}
      BY DEF InAuth
    <3> HIDE DEF x
    <3>4. << x >> \in Seq(AuthType)
      BY <2>1, <3>2 DEF x
    <3>5. QED BY <2>1, <3>3, <3>4
  <2>3. CASE ~(opt # << >> /\ name \in {"domain", "result"})
    <3>1. InAuth(t, name, opt) \in {opt, << >>}
      BY <2>3 DEF InAuth
    <3>2. QED BY <2>1, <3>1
  <2>4. QED BY <2>2, <2>3
<1>7. QED BY <1>1, <1>5, <1>6 DEF End, LocalsTyped

(* An end tag.                                                             *)
LEMMA EndKeeps == ParseInv /\ EndEvent => ParseInv'
<1> SUFFICES ASSUME ParseInv, EndEvent PROVE ParseInv'
  OBVIOUS
<1> Shape(dom) /\ StackIs /\ TextIs /\ HasRead /\ LocalsTyped
  BY DEF ParseInv
<1> DEFINE n == Len(dom)
<1>1. n \in 2..6 /\ Len(dom) > 1 /\ DomEnd /\ End /\ result' = result
  BY DEF EndEvent, Parsing, Shape
<1>2. dom' = Ended(dom)
  BY <1>1 DEF DomEnd, Ended, Top, Last
<1>3. /\ Shape(dom') /\ Len(dom') = n - 1 /\ (\A i \in 1..(n - 2) : dom'[i] = dom[i])
      /\ dom'[n - 1] = Grown(dom[n - 1], dom[n])
  BY <1>1, <1>2, EndShape
<1>4. IsNode(dom[n - 1])
  BY <1>1, EndNode
<1>5. \A i \in 1..(n - 1) : dom'[i].tag = dom[i].tag /\ dom'[i].text = dom[i].text
  <2>1. dom'[n - 1].tag = dom[n - 1].tag /\ dom'[n - 1].text = dom[n - 1].text
    BY <1>3, <1>4, GrownShape
  <2>2. \A i \in 1..(n - 1) : i = n - 1 \/ i \in 1..(n - 2)
    <3> HIDE DEF n
    <3>1. QED BY <1>1
  <2>3. QED BY <1>3, <2>1, <2>2
<1>6. StackIs'
  <2>1. stack \in Seq({dom[i].tag : i \in 1..n}) /\ Len(stack) = n - 1
    BY InIs
  <2>2. stack' = SubSeq(stack, 1, n - 2)
    <3>1. stack' = SubSeq(stack, 1, Len(stack) - 1)
      BY <1>1 DEF End, Front
    <3> HIDE DEF n
    <3>2. n - 1 - 1 = n - 2
      BY <1>1
    <3>3. QED BY <2>1, <3>1, <3>2
  <2>3. SubSeq(stack, 1, n - 2) = [i \in 1..(n - 2) |-> dom'[i + 1].tag]
    <3> DEFINE E == {dom[i].tag : i \in 1..n}
    <3>1. \A i \in 1..(n - 2) : stack[i] = dom'[i + 1].tag
      <4>1. ASSUME NEW i \in 1..(n - 2)
            PROVE  stack[i] = dom'[i + 1].tag
        <5>1. i \in 1..(n - 1) /\ i + 1 \in 1..(n - 1)
          <6> HIDE DEF n
          <6>1. QED BY <1>1, <4>1
        <5>2. stack[i] = dom[i + 1].tag
          BY <5>1 DEF StackIs
        <5>3. QED BY <1>5, <5>1, <5>2
      <4>2. QED BY <4>1
    <3> HIDE DEF E, n
    <3>2. SubSeq(stack, 1, n - 2) = [i \in 1..(n - 2) |-> stack[i]]
      <4>1. n - 2 \in 0..Len(stack)
        BY <1>1, <2>1
      <4>2. stack \in Seq(E)
        BY <2>1 DEF E, n
      <4>3. \A i \in 1..(n - 2) : stack[1 + i - 1] = stack[i]
        BY <1>1
      <4>4. SubSeq(stack, 1, n - 2) = [i \in 1..(n - 2) |-> stack[1 + i - 1]]
        BY <1>1, <4>1, <4>2
      <4>5. QED BY <4>3, <4>4
    <3>3. QED BY <3>1, <3>2
  <2>4. Len(dom') - 1 = n - 2
    <3> HIDE DEF n
    <3>1. QED BY <1>1, <1>3
  <2>5. QED BY <2>2, <2>3, <2>4 DEF StackIs
<1>7. TextIs'
  <2>1. cur_text' = NoText
    BY <1>1 DEF End
  <2>2. \A i \in 1..(n - 1) : dom'[i].text = NoText
    BY <1>5 DEF TextIs
  <2>3. /\ n - 1 \in 1..(n - 1) /\ Len(dom') - 1 = n - 2 /\ 1..(n - 2) \subseteq 1..(n - 1)
    <3> HIDE DEF n
    <3>1. QED BY <1>1, <1>3
  <2>4. dom'[Len(dom')].text = NoText
    BY <1>3, <2>2, <2>3
  <2>5. \A i \in 1..(Len(dom') - 1) : dom'[i].text = NoText
    BY <2>2, <2>3
  <2> HIDE DEF n
  <2>6. QED BY <2>1, <2>4, <2>5 DEF TextIs, Top, Last
<1>8. HasRead'
  <2>1. rpt' = Reading(dom')
    BY <1>1, <1>2, EndReport
  <2>2. cur_record' = IF Open(dom', 3, "record") THEN << RecordReading(dom') >> ELSE << >>
    BY <1>1, <1>2, EndRecord
  <2>3. Last(stack) = dom[n].tag
    BY <1>1, InIs
  <2>4. cur_dkim' = InAuth("dkim", dom[n].tag, AuthReading(dom, "dkim"))
        /\ cur_spf' = InAuth("spf", dom[n].tag, AuthReading(dom, "spf"))
    BY <1>1, <2>3 DEF End, HasRead
  <2>5. cur_dkim' = AuthReading(dom', "dkim") /\ cur_spf' = AuthReading(dom', "spf")
    BY <1>1, <1>2, <2>4, EndAuth
  <2>6. QED BY <2>1, <2>2, <2>5 DEF HasRead
<1>9. LocalsTyped'
  <2>1. starts' = starts
    BY <1>1 DEF DomEnd
  <2>2. QED BY <1>1, <2>1, EndLocals DEF LocalsTyped
<1>10. QED BY <1>3, <1>6, <1>7, <1>8, <1>9 DEF ParseInv

(* A step of parse(), or of nothing it looks at.                           *)
LEMMA ParseInvNext == ParseInv /\ [ParseNext]_parseVars => ParseInv'
<1> SUFFICES ASSUME ParseInv, [ParseNext]_parseVars PROVE ParseInv'
  OBVIOUS
<1>1. CASE StartEvent
  BY <1>1, StartKeeps
<1>2. CASE TextEvent
  BY <1>2, TextKeeps
<1>3. CASE EndEvent
  BY <1>3, EndKeeps
<1>4. ASSUME UNCHANGED <<dom, starts, parser>>, result' \in {"parsing", "ok", "err"}
      PROVE  ParseInv'
  BY <1>4 DEF ParseInv, LocalsTyped, StackIs, TextIs, Top, Content, ParentTag, HasRead, parser
<1>5. CASE Eof
  BY <1>4, <1>5 DEF Eof
<1>6. CASE Malformed
  BY <1>4, <1>6 DEF Malformed
<1>7. CASE UNCHANGED parseVars
  BY <1>4, <1>7 DEF parseVars, ParseInv, LocalsTyped
<1>8. QED BY <1>1, <1>2, <1>3, <1>5, <1>6, <1>7 DEF ParseNext

(* The parser's locals in every state that the code reaches.               *)
THEOREM Parses == ParseSpec => []ParseInv
<1>1. QED BY ParseInvInit, ParseInvNext, PTL DEF ParseSpec

(* The parser is inside a record, a dkim or an spf result exactly while    *)
(* the document is.                                                        *)
THEOREM ParseTyped == ParseSpec => []TypeOK
<1>1. ParseInv => TypeOK
  <2> SUFFICES ASSUME ParseInv PROVE TypeOK
    OBVIOUS
  <2> Shape(dom) /\ StackIs /\ HasRead /\ LocalsTyped
    BY DEF ParseInv
  <2>1. Len(stack) = Len(dom) - 1
    BY InIs
  <2>2. \A i \in DOMAIN stack : stack[i] = dom[i + 1].tag
    BY DEF StackIs
  <2>3. cur_record = << >> <=> ~In("record")
    BY NamesOpen DEF HasRead
  <2>4. ASSUME NEW t \in {"dkim", "spf"}
        PROVE  AuthReading(dom, t) = << >> <=> ~(In("auth_results") /\ In(t))
    <3>1. /\ (In("auth_results") <=> Open(dom, 4, "auth_results"))
          /\ (In(t) <=> Open(dom, 5, t) \/ Open(dom, 6, t))
      BY NamesOpen
    <3>2. ~(Open(dom, 4, "auth_results") /\ Open(dom, 6, t))
      <4> SUFFICES ASSUME Open(dom, 4, "auth_results"), Open(dom, 6, t) PROVE FALSE
        OBVIOUS
      <4>1. Len(dom) >= 6 /\ Len(dom) >= 5 /\ Levels(dom)
        <5>1. Len(dom) \in 1..6 /\ Len(dom) >= 6
          BY DEF Open, Shape
        <5>2. QED BY <5>1 DEF Shape
      <4>2. dom[5].tag \in {"dkim", "spf"}
        BY <4>1 DEF Levels, Open
      <4>3. QED BY <4>1, <4>2 DEF Levels, Open
    <3>3. QED BY <3>1, <3>2 DEF AuthReading
  <2>5. cur_dkim = AuthReading(dom, "dkim") /\ cur_spf = AuthReading(dom, "spf")
    BY DEF HasRead
  <2>6. QED BY <2>1, <2>2, <2>3, <2>4, <2>5 DEF TypeOK, LocalsTyped
<1>2. QED BY <1>1, Parses, PTL

(* A report that was read to its end says what the document says.          *)
THEOREM ReportsSayTheDocument == ParseSpec => []SaysWhatTheDocumentSays
<1>1. ParseInv => SaysWhatTheDocumentSays
  <2> SUFFICES ASSUME ParseInv, Complete PROVE rpt = ReportOf(Child(Top, "feedback"))
    BY DEF SaysWhatTheDocumentSays
  <2>1. Len(dom) = 1 /\ Top = dom[1] /\ rpt = Reading(dom)
    BY DEF Complete, ParseInv, HasRead, Top, Last
  <2>2. /\ Feedback(dom) = Child(Top, "feedback")
        /\ Metadata(dom) = Child(Feedback(dom), "report_metadata")
        /\ Policy(dom) = Child(Feedback(dom), "policy_published")
        /\ Dates(dom) = Child(Metadata(dom), "date_range")
    BY <2>1 DEF Feedback, Metadata, Policy, Dates, InPart, Open
  <2>3. QED BY <2>1, <2>2 DEF Reading, ReportOf
<1>2. QED BY <1>1, Parses, PTL
==============================================================================
