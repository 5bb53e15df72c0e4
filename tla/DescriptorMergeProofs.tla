------------------------ MODULE DescriptorMergeProofs ------------------------
(***************************************************************************)
(* Proofs about DescriptorMerge: the attributes the set-up builds from a   *)
(* table of reports, of any length, and what becomes of the descriptors of *)
(* any number of interfaces.                                               *)
(***************************************************************************)
EXTENDS DescriptorMerge, ReportDescriptorProofs

(***************************************************************************)
(* The attributes around the reports                                       *)
(***************************************************************************)
Kinds == {"service", "declaration", "value", "descriptor"}
OtherUuids ==
    {"access", "name", "appearance", "connection parameters", "attribute", "device", "manufacturer", "PnP id",
     "battery", "battery level", "configuration", "reference", "HID", "HID information", "protocol mode",
     "control point", "report map"}
Rights == {"read", "write", "notify"}
Value == [id : 0..IdMod-1, type : ReportType \cup {"none"}]
AttributeType ==
    [kind : Kinds, uuid : OtherUuids \cup {"report"}, props : SUBSET Rights, secure : SUBSET Rights, value : Value]
\* No attribute of a report.
Other == {attribute \in AttributeType : attribute.uuid # "report"}

LEMMA AttributeTypes ==
    ASSUME NEW kind \in Kinds, NEW uuid \in OtherUuids \cup {"report"}, NEW props \in SUBSET Rights, NEW secure \in SUBSET Rights,
           NEW value \in Value
    PROVE  Attribute(kind, uuid, props, secure, value) \in AttributeType
BY DEF Attribute, AttributeType

LEMMA NoValueType == NoValue \in Value
BY DescriptorAssumption DEF NoValue, Value

LEMMA OtherCalls ==
    ASSUME NEW uuid \in OtherUuids, NEW props \in SUBSET Rights, NEW secure \in SUBSET Rights,
           NEW auto \in BOOLEAN
    PROVE  /\ att_db_util_add_service_uuid16(uuid) \in Seq(Other)
           /\ att_db_util_add_descriptor_uuid16(uuid, props, secure, NoValue) \in Seq(Other)
           /\ att_db_util_add_characteristic_uuid16(uuid, props, secure, auto) \in Seq(Other)
<1>1. ASSUME NEW kind \in Kinds, NEW u \in OtherUuids, NEW p \in SUBSET Rights, NEW s \in SUBSET Rights
      PROVE  <<Attribute(kind, u, p, s, NoValue)>> \in Seq(Other)
  <2>1. Attribute(kind, u, p, s, NoValue) \in AttributeType BY NoValueType, AttributeTypes
  <2>2. Attribute(kind, u, p, s, NoValue).uuid = u BY DEF Attribute
  <2>3. u # "report" BY DEF OtherUuids
  <2>4. Attribute(kind, u, p, s, NoValue) \in Other BY <2>1, <2>2, <2>3 DEF Other
  <2> QED BY <2>4
<1>2. att_db_util_add_service_uuid16(uuid) \in Seq(Other)
  <2>1. {"read"} \in SUBSET Rights /\ {} \in SUBSET Rights /\ "service" \in Kinds BY DEF Rights, Kinds
  <2> QED BY <1>1, <2>1 DEF att_db_util_add_service_uuid16
<1>3. att_db_util_add_descriptor_uuid16(uuid, props, secure, NoValue) \in Seq(Other)
  BY <1>1 DEF att_db_util_add_descriptor_uuid16, Kinds
<1>4. att_db_util_add_characteristic_uuid16(uuid, props, secure, auto) \in Seq(Other)
  <2> DEFINE a == Attribute("declaration", uuid, {"read"}, {}, NoValue)
             b == Attribute("value", uuid, props, secure, NoValue)
             c == att_db_util_add_descriptor_uuid16("configuration", {"read", "write"}, secure \ {"read"}, NoValue)
             tail == IF auto /\ "notify" \in props THEN c ELSE <<>>
  <2>1. <<a>> \in Seq(Other) /\ <<b>> \in Seq(Other) BY <1>1 DEF Kinds, Rights
  <2>2. c \in Seq(Other)
    <3>1. {"read", "write"} \in SUBSET Rights /\ secure \ {"read"} \in SUBSET Rights
          /\ "configuration" \in OtherUuids
      BY DEF Rights, OtherUuids
    <3> QED BY <1>1, <3>1 DEF att_db_util_add_descriptor_uuid16, Kinds
  <2>3. att_db_util_add_characteristic_uuid16(uuid, props, secure, auto) = <<a, b>> \o tail
    BY DEF att_db_util_add_characteristic_uuid16
  <2> HIDE DEF a, b, c
  <2>4. <<a, b>> \in Seq(Other) BY <2>1
  <2>5. tail \in Seq(Other) BY <2>2
  <2> HIDE DEF tail
  <2> QED BY <2>3, <2>4, <2>5, ConcatProperties
<1> QED BY <1>2, <1>3, <1>4

LEMMA FixedServicesType == ASSUME NEW auto \in BOOLEAN PROVE FixedServices(auto) \in Seq(Other)
<1>0. \A s, t \in Seq(Other) : s \o t \in Seq(Other) BY ConcatProperties
<1>1. \A uuid \in OtherUuids : att_db_util_add_service_uuid16(uuid) \in Seq(Other) BY OtherCalls
<1>2. \A uuid \in OtherUuids, props \in SUBSET Rights : Open(uuid, props) \in Seq(Other)
  BY OtherCalls DEF Open
<1>3. att_db_util_add_characteristic_uuid16("battery level", {"read", "notify"}, {}, auto) \in Seq(Other)
  BY OtherCalls DEF OtherUuids, Rights
<1>4. att_db_util_add_descriptor_uuid16("configuration", {"read", "write"}, {}, NoValue) \in Seq(Other)
  BY OtherCalls DEF OtherUuids, Rights
<1>5. /\ Open("name", {"read"}) \in Seq(Other) /\ Open("appearance", {"read"}) \in Seq(Other)
      /\ Open("connection parameters", {"read"}) \in Seq(Other)
      /\ Open("manufacturer", {"read"}) \in Seq(Other) /\ Open("PnP id", {"read"}) \in Seq(Other)
      /\ Open("HID information", {"read"}) \in Seq(Other) /\ Open("protocol mode", {"read", "write"}) \in Seq(Other)
      /\ Open("control point", {"write"}) \in Seq(Other) /\ Open("report map", {"read"}) \in Seq(Other)
  BY <1>2 DEF OtherUuids, Rights
<1>6. /\ att_db_util_add_service_uuid16("access") \in Seq(Other)
      /\ att_db_util_add_service_uuid16("attribute") \in Seq(Other)
      /\ att_db_util_add_service_uuid16("device") \in Seq(Other)
      /\ att_db_util_add_service_uuid16("battery") \in Seq(Other)
      /\ att_db_util_add_service_uuid16("HID") \in Seq(Other)
  BY <1>1 DEF OtherUuids
<1> QED BY <1>0, <1>3, <1>4, <1>5, <1>6 DEF FixedServices


(***************************************************************************)
(* The attributes of one report                                            *)
(***************************************************************************)
Chunk(report, auto) ==
    att_db_util_add_characteristic_uuid16("report", ReportProps(report.type), {"read", "write"}, auto)
    \o ReportDescriptors(report)

\* A sequence of attributes is that of the report.
IsChunk(c, report) ==
    /\ c \in Seq(AttributeType) /\ Len(c) >= 3
    /\ c[1].kind = "declaration"
    /\ c[2].kind = "value" /\ c[2].uuid = "report" /\ c[2].props = ReportProps(report.type)
    /\ \A j \in 3..Len(c) : c[j].kind = "descriptor" /\ (c[j].uuid = "reference" => c[j].value = report)
    /\ c[Len(c)].uuid = "reference"
    /\ report.type = "input" => \E j \in 3..Len(c) : c[j].uuid = "configuration" /\ "write" \in c[j].props

\* The calls the loop of build_dynamic_gatt makes for a report make one characteristic, complete with
\* the declaration and the descriptors a host looks for.
LEMMA ChunkProperties ==
    ASSUME NEW report \in TableEntry, NEW auto \in BOOLEAN
    PROVE  /\ IsChunk(Chunk(report, auto), report)
           /\ ReportDescriptors(report) \in Seq(AttributeType)
           /\ att_db_util_add_characteristic_uuid16("report", ReportProps(report.type), {"read", "write"}, auto)
                \in Seq(AttributeType)
<1> DEFINE d == Attribute("declaration", "report", {"read"}, {}, NoValue)
           v == Attribute("value", "report", ReportProps(report.type), {"read", "write"}, NoValue)
           k1 == Attribute("descriptor", "configuration", {"read", "write"}, {"read", "write"} \ {"read"}, NoValue)
           k2 == Attribute("descriptor", "configuration", {"read", "write"}, {"write"}, NoValue)
           r == Attribute("descriptor", "reference", {"read"}, {}, report)
           isInput == report.type = "input"
<1>1. report.type \in ReportType /\ report \in Value BY DEF TableEntry, Value
<1>2. ReportProps(report.type) \in SUBSET Rights BY DEF ReportProps, Rights
<1>3. d \in AttributeType /\ v \in AttributeType /\ k1 \in AttributeType /\ k2 \in AttributeType /\ r \in AttributeType
  <2>1. {"read"} \in SUBSET Rights /\ {} \in SUBSET Rights /\ {"read", "write"} \in SUBSET Rights
        /\ {"write"} \in SUBSET Rights /\ {"read", "write"} \ {"read"} \in SUBSET Rights
    BY DEF Rights
  <2>2. {"declaration", "value", "descriptor"} \subseteq Kinds BY DEF Kinds
  <2>3. {"report", "configuration", "reference"} \subseteq OtherUuids \cup {"report"} BY DEF OtherUuids
  <2> QED BY <1>1, <1>2, <2>1, <2>2, <2>3, NoValueType, AttributeTypes
<1>4. /\ d.kind = "declaration" /\ v.kind = "value" /\ v.uuid = "report" /\ v.props = ReportProps(report.type)
      /\ k1.kind = "descriptor" /\ k1.uuid = "configuration" /\ "write" \in k1.props
      /\ k2.kind = "descriptor" /\ k2.uuid = "configuration" /\ "write" \in k2.props
      /\ r.kind = "descriptor" /\ r.uuid = "reference" /\ r.value = report
  BY DEF Attribute
<1>5. "notify" \in ReportProps(report.type) <=> isInput BY DEF ReportProps
<1>60. /\ ReportDescriptors(report) = (IF isInput THEN <<k2>> ELSE <<>>) \o <<r>>
       /\ att_db_util_add_characteristic_uuid16("report", ReportProps(report.type), {"read", "write"}, auto)
            = <<d, v>> \o IF auto /\ isInput THEN <<k1>> ELSE <<>>
  <2>1. att_db_util_add_characteristic_uuid16("report", ReportProps(report.type), {"read", "write"}, auto)
        = <<d, v>> \o IF auto /\ isInput THEN <<k1>> ELSE <<>>
    BY <1>5 DEF att_db_util_add_characteristic_uuid16, att_db_util_add_descriptor_uuid16
  <2>2. ReportDescriptors(report) = (IF isInput THEN <<k2>> ELSE <<>>) \o <<r>>
    BY DEF ReportDescriptors, Configuration, att_db_util_add_descriptor_uuid16
  <2> QED BY <2>1, <2>2
<1>6. Chunk(report, auto) = (<<d, v>> \o IF auto /\ isInput THEN <<k1>> ELSE <<>>)
                            \o ((IF isInput THEN <<k2>> ELSE <<>>) \o <<r>>)
  <2> HIDE DEF d, v, k1, k2, r, isInput
  <2> QED BY <1>60 DEF Chunk
<1> HIDE DEF d, v, k1, k2, r
<1>61. <<d, v>> \in Seq(AttributeType) /\ <<k1>> \in Seq(AttributeType) /\ <<k2>> \in Seq(AttributeType)
       /\ <<r>> \in Seq(AttributeType)
  BY <1>3
<1> DEFINE dvk == <<d, v>> \o <<k1>>
           kr == <<k2>> \o <<r>>
           c == Chunk(report, auto)
<1>62. dvk \in Seq(AttributeType) /\ Len(dvk) = 3 /\ dvk[1] = d /\ dvk[2] = v /\ dvk[3] = k1 BY <1>61, ConcatProperties
<1>63. kr \in Seq(AttributeType) /\ Len(kr) = 2 /\ kr[1] = k2 /\ kr[2] = r BY <1>61, ConcatProperties
<1>7. ASSUME auto /\ isInput PROVE IsChunk(c, report)
  <2>1. c = dvk \o kr
    <3>1. c = (<<d, v>> \o <<k1>>) \o (<<k2>> \o <<r>>) BY <1>6, <1>7
    <3> QED BY <3>1
  <2> HIDE DEF c, dvk, kr
  <2>0. c \in Seq(AttributeType) /\ Len(c) = Len(dvk) + Len(kr)
        /\ \A i \in 1..Len(dvk) + Len(kr) : c[i] = IF i <= Len(dvk) THEN dvk[i] ELSE kr[i - Len(dvk)]
    BY <1>62, <1>63, <2>1, ConcatProperties
  <2>2. c \in Seq(AttributeType) /\ Len(c) = 5 BY <1>62, <1>63, <2>0
  <2>3. c[1] = d /\ c[2] = v /\ c[3] = k1 /\ c[4] = k2 /\ c[5] = r BY <1>62, <1>63, <2>0
  <2>4. \A j \in 3..Len(c) : j = 3 \/ j = 4 \/ j = 5 BY <2>2
  <2>5. IsChunk(c, report) BY <1>4, <2>2, <2>3, <2>4 DEF IsChunk
  <2> QED BY <2>5
<1>8. ASSUME ~auto /\ isInput PROVE IsChunk(c, report)
  <2>1. c = <<d, v>> \o kr
    <3>1. c = (<<d, v>> \o <<>>) \o (<<k2>> \o <<r>>) BY <1>6, <1>8
    <3> QED BY <1>61, <3>1, ConcatEmptySeq
  <2> HIDE DEF c, kr
  <2>0. c \in Seq(AttributeType) /\ Len(c) = Len(<<d, v>>) + Len(kr) BY <1>61, <1>63, <2>1, ConcatProperties
  <2>2. c \in Seq(AttributeType) /\ Len(c) = 4 BY <1>63, <2>0
  <2>3. c[1] = d /\ c[2] = v /\ c[3] = k2 /\ c[4] = r BY <1>61, <1>63, <2>1, ConcatProperties
  <2>4. \A j \in 3..Len(c) : j = 3 \/ j = 4 BY <2>2
  <2>5. IsChunk(c, report) BY <1>4, <2>2, <2>3, <2>4 DEF IsChunk
  <2> QED BY <2>5
<1>9. ASSUME ~isInput PROVE IsChunk(c, report)
  <2>1. c = <<d, v>> \o <<r>>
    <3>1. c = (<<d, v>> \o <<>>) \o (<<>> \o <<r>>) BY <1>6, <1>9
    <3> QED BY <1>61, <3>1, ConcatEmptySeq
  <2> HIDE DEF c
  <2>2. c \in Seq(AttributeType) /\ Len(c) = 3 BY <1>61, <2>1, ConcatProperties
  <2>3. c[1] = d /\ c[2] = v /\ c[3] = r BY <1>61, <2>1, ConcatProperties
  <2>4. \A j \in 3..Len(c) : j = 3 BY <2>2
  <2>5. IsChunk(c, report) BY <1>4, <1>9, <2>2, <2>3, <2>4 DEF IsChunk
  <2> QED BY <2>5
<1>10. IsChunk(c, report)
  <2> HIDE DEF c
  <2> QED BY <1>7, <1>8, <1>9
<1>11. ReportDescriptors(report) \in Seq(AttributeType)
  <2> HIDE DEF isInput
  <2>1. ReportDescriptors(report) = (IF isInput THEN <<k2>> ELSE <<>>) \o <<r>> BY <1>60
  <2>2. <<>> \o <<r>> = <<r>> BY <1>61, ConcatEmptySeq
  <2>3. ReportDescriptors(report) = kr \/ ReportDescriptors(report) = <<r>> BY <2>1, <2>2
  <2> QED BY <1>61, <1>63, <2>3
<1>12. att_db_util_add_characteristic_uuid16("report", ReportProps(report.type), {"read", "write"}, auto)
       \in Seq(AttributeType)
  <2> DEFINE call == att_db_util_add_characteristic_uuid16("report", ReportProps(report.type), {"read", "write"}, auto)
  <2> HIDE DEF isInput, call
  <2>1. call = <<d, v>> \o IF auto /\ isInput THEN <<k1>> ELSE <<>> BY <1>60 DEF call
  <2>2. <<d, v>> \o <<>> = <<d, v>> BY <1>61, ConcatEmptySeq
  <2>3. call = dvk \/ call = <<d, v>> BY <2>1, <2>2
  <2>4. call \in Seq(AttributeType) BY <1>61, <1>62, <2>3
  <2> QED BY <2>4 DEF call
<1> QED BY <1>10, <1>11, <1>12


(***************************************************************************)
(* The loop of build_dynamic_gatt                                          *)
(***************************************************************************)
GattType == [value_handles : Seq(Nat), att_db : Seq(AttributeType)]
GattBase(auto) == [value_handles |-> <<>>, att_db |-> FixedServices(auto)]
GattSteps(reports, auto) == [k \in 1..Len(reports) |-> [table \in GattType |-> AddReport(table, reports[k], auto)]]

\* One iteration appends the attributes of one report and notes the handle of its value.
LEMMA AddReportIs ==
    ASSUME NEW table \in GattType, NEW report \in TableEntry, NEW auto \in BOOLEAN
    PROVE  /\ Chunk(report, auto) \in Seq(AttributeType)
           /\ AddReport(table, report, auto).value_handles = Append(table.value_handles, Len(table.att_db) + 2)
           /\ AddReport(table, report, auto).att_db = table.att_db \o Chunk(report, auto)
           /\ AddReport(table, report, auto) \in GattType
<1> DEFINE call == att_db_util_add_characteristic_uuid16("report", ReportProps(report.type), {"read", "write"}, auto)
           more == ReportDescriptors(report)
           db == table.att_db
<1>1. db \in Seq(AttributeType) /\ table.value_handles \in Seq(Nat) BY DEF GattType
<1>2. Chunk(report, auto) \in Seq(AttributeType) BY ChunkProperties DEF IsChunk
<1>3. call \in Seq(AttributeType) /\ more \in Seq(AttributeType) BY ChunkProperties
<1>4. AddReport(table, report, auto) = [value_handles |-> Append(table.value_handles, Len(db) + 2), att_db |-> db \o call \o more]
  BY DEF AddReport
<1>5. Chunk(report, auto) = call \o more BY DEF Chunk
<1>6. db \o call \o more = db \o Chunk(report, auto)
  <2> HIDE DEF call, more, db
  <2>1. (db \o call) \o more = db \o (call \o more) BY <1>1, <1>3, ConcatAssociative
  <2> QED BY <1>5, <2>1
<1> HIDE DEF call, more
<1>7. db \o Chunk(report, auto) \in Seq(AttributeType) BY <1>1, <1>2, ConcatProperties
<1>8. Len(db) + 2 \in Nat BY <1>1
<1>9. Append(table.value_handles, Len(db) + 2) \in Seq(Nat) BY <1>1, <1>8, AppendProperties
<1> QED BY <1>2, <1>4, <1>6, <1>7, <1>9 DEF GattType

\* The set-up before the loop and each iteration keep the attributes well formed.
LEMMA GattTypes ==
    ASSUME NEW auto \in BOOLEAN
    PROVE  /\ GattBase(auto) \in GattType
           /\ \A table \in GattType, report \in TableEntry : AddReport(table, report, auto) \in GattType
<1>1. FixedServices(auto) \in Seq(AttributeType)
  <2>1. Other \subseteq AttributeType BY DEF Other
  <2>2. FixedServices(auto) \in Seq(Other) BY FixedServicesType
  <2>3. FixedServices(auto) \in [1..Len(FixedServices(auto)) -> Other] /\ Len(FixedServices(auto)) \in Nat BY <2>2
  <2>4. FixedServices(auto) \in [1..Len(FixedServices(auto)) -> AttributeType] BY <2>1, <2>3
  <2> QED BY <2>3, <2>4, IsASeq
<1>2. <<>> \in Seq(Nat) OBVIOUS
<1>3. GattBase(auto) \in GattType BY <1>1, <1>2 DEF GattBase, GattType
<1> QED BY <1>3, AddReportIs

\* build_dynamic_gatt is where a run of that loop ends.
LEMMA GattRun ==
    ASSUME NEW reports \in Seq(TableEntry), NEW auto \in BOOLEAN
    PROVE  \E g : /\ IsRun(g, Len(reports), GattType, GattBase(auto), GattSteps(reports, auto))
                  /\ g[Len(reports)] = build_dynamic_gatt(reports, auto)
<1> DEFINE n == Len(reports)
           step == GattSteps(reports, auto)
           Body(f) == [s \in SUBSET DOMAIN reports |->
                          IF s = {} THEN GattBase(auto) ELSE AddReport(f[s \ {Max(s)}], reports[Max(s)], auto)]
           F == CHOOSE f : f = Body(f)
<1>1. n \in Nat /\ DOMAIN reports = 1..n /\ \A k \in 1..n : reports[k] \in TableEntry OBVIOUS
<1>2. step \in Steps(n, GattType) BY <1>1, GattTypes DEF Steps, GattSteps
<1>0. GattBase(auto) \in GattType BY GattTypes
<1>3. PICK h : Solves(h, n, GattType, GattBase(auto), step)
  <2> HIDE DEF n, step
  <2> QED BY <1>0, <1>1, <1>2, FoldExists
<1>4. ASSUME NEW s \in SUBSET (1..n), s # {}, NEW f, f[s \ {Max(s)}] \in GattType
      PROVE  step[Max(s)][f[s \ {Max(s)}]] = AddReport(f[s \ {Max(s)}], reports[Max(s)], auto)
  <2>1. Max(s) \in 1..n BY <1>1, <1>4, MaxOf
  <2> QED BY <1>4, <2>1 DEF GattSteps
<1>5. h = Body(h)
  <2>1. ASSUME NEW s \in SUBSET (1..n) PROVE h[s] = Body(h)[s]
    <3>1. s \ {Max(s)} \in SUBSET (1..n) OBVIOUS
    <3>2. h[s \ {Max(s)}] \in GattType BY <1>3, <3>1 DEF Solves
    <3> QED BY <1>1, <1>3, <1>4, <3>2 DEF Solves
  <2> QED BY <1>1, <1>3, <2>1 DEF Solves
<1>6. F = Body(F)
  <2> HIDE DEF Body
  <2> QED BY <1>5
<1>7. build_dynamic_gatt(reports, auto) = F[1..n] BY <1>1 DEF build_dynamic_gatt, GattBase, FoldLeft, MapThenFoldSet
<1>8. F[{}] = GattBase(auto) BY <1>6
<1>9. ASSUME NEW s \in SUBSET (1..n), s # {}, F[s \ {Max(s)}] \in GattType
      PROVE  F[s] = step[Max(s)][F[s \ {Max(s)}]]
  <2>1. F[s] = AddReport(F[s \ {Max(s)}], reports[Max(s)], auto) BY <1>1, <1>6, <1>9
  <2> HIDE DEF F, step
  <2> QED BY <1>4, <1>9, <2>1
<1> HIDE DEF F, step, n
<1>10. Obeys(F, n, GattType, GattBase(auto), step) BY <1>8, <1>9 DEF Obeys
<1>11. \E g : IsRun(g, n, GattType, GattBase(auto), step) /\ g[n] = F[1..n]
  BY <1>0, <1>1, <1>2, <1>10, RunOfFold
<1> QED BY <1>7, <1>11 DEF n, step


(***************************************************************************)
(* What a host finds in attributes that grow by one characteristic         *)
(***************************************************************************)
LEMMA Appended ==
    ASSUME NEW db \in Seq(AttributeType), NEW c \in Seq(AttributeType)
    PROVE  /\ db \o c \in Seq(AttributeType) /\ Len(db \o c) = Len(db) + Len(c)
           /\ DOMAIN (db \o c) = 1..Len(db) + Len(c)
           /\ \A h \in 1..Len(db) : (db \o c)[h] = db[h]
           /\ \A j \in 1..Len(c) : Len(db) + j \in 1..Len(db) + Len(c) /\ (db \o c)[Len(db) + j] = c[j]
<1>1. Len(db) \in Nat /\ Len(c) \in Nat OBVIOUS
<1>2. db \o c \in Seq(AttributeType) /\ Len(db \o c) = Len(db) + Len(c)
      /\ \A h \in 1..Len(db) + Len(c) : (db \o c)[h] = IF h <= Len(db) THEN db[h] ELSE c[h - Len(db)]
  BY ConcatProperties
<1>3. \A h \in 1..Len(db) : h \in 1..Len(db) + Len(c) /\ h <= Len(db) BY <1>1
<1>4. \A j \in 1..Len(c) : /\ Len(db) + j \in 1..Len(db) + Len(c) /\ ~(Len(db) + j <= Len(db))
                           /\ Len(db) + j - Len(db) = j
  BY <1>1
<1>5. \A h \in 1..Len(db) : (db \o c)[h] = db[h] BY <1>2, <1>3
<1>6. \A j \in 1..Len(c) : (db \o c)[Len(db) + j] = c[j] BY <1>2, <1>4
<1>7. DOMAIN (db \o c) = 1..Len(db) + Len(c) BY <1>2
<1> QED BY <1>2, <1>4, <1>5, <1>6, <1>7

\* The descriptors of the characteristics before it stay what they were.
LEMMA DescriptorsKept ==
    ASSUME NEW db \in Seq(AttributeType), NEW c \in Seq(AttributeType), Len(c) >= 1, c[1].kind = "declaration",
           NEW h \in 1..Len(db)
    PROVE  /\ DescriptorsOf(db \o c, h) = DescriptorsOf(db, h)
           /\ \A d \in DescriptorsOf(db, h) : (db \o c)[d] = db[d]
<1> DEFINE n == Len(db)
           all == db \o c
<1>1. n \in Nat /\ h \in Nat /\ h <= n OBVIOUS
<1>2. Len(all) = n + Len(c) /\ Len(c) \in Nat /\ \A x \in 1..n : all[x] = db[x] BY Appended
<1>3. all[n + 1].kind # "descriptor"
  <2>1. 1 \in 1..Len(c) OBVIOUS
  <2>2. all[n + 1] = c[1] BY <2>1, Appended
  <2> QED BY <2>2
<1> HIDE DEF n, all
<1>4. Len(db) = n BY DEF n
<1>5. ASSUME NEW d \in h+1..n + Len(c), \A x \in h+1..d : all[x].kind = "descriptor"
      PROVE  d <= n
  <2>1. SUFFICES ASSUME ~(d <= n) PROVE FALSE OBVIOUS
  <2>2. n + 1 \in h+1..d BY <1>1, <1>2, <2>1
  <2> QED BY <1>3, <1>5, <2>2
<1>6. \A d \in h+1..n : \A x \in h+1..d : x \in 1..n BY <1>1
<1>7. \A d \in h+1..n : (\A x \in h+1..d : all[x].kind = "descriptor") <=> (\A x \in h+1..d : db[x].kind = "descriptor")
  BY <1>2, <1>6
<1>8. \A d \in h+1..n : d \in h+1..n + Len(c) BY <1>1, <1>2
<1>9. \A d \in h+1..n + Len(c) : d <= n => d \in h+1..n BY <1>1, <1>2
<1>10. DescriptorsOf(all, h) = {d \in h+1..n + Len(c) : \A x \in h+1..d : all[x].kind = "descriptor"}
  BY <1>2 DEF DescriptorsOf
<1>11. DescriptorsOf(db, h) = {d \in h+1..n : \A x \in h+1..d : db[x].kind = "descriptor"}
  BY <1>4 DEF DescriptorsOf
<1>12. DescriptorsOf(all, h) = DescriptorsOf(db, h) BY <1>5, <1>7, <1>8, <1>9, <1>10, <1>11
<1>13. \A d \in DescriptorsOf(db, h) : d \in 1..n BY <1>1, <1>11
<1> QED BY <1>2, <1>12, <1>13 DEF all

\* Those of the new one are what follows its value.
LEMMA DescriptorsNew ==
    ASSUME NEW db \in Seq(AttributeType), NEW c, NEW report, IsChunk(c, report)
    PROVE  DescriptorsOf(db \o c, Len(db) + 2) = {Len(db) + j : j \in 3..Len(c)}
<1> DEFINE n == Len(db)
           m == Len(c)
           all == db \o c
<1>1. c \in Seq(AttributeType) /\ \A j \in 3..m : c[j].kind = "descriptor" BY DEF IsChunk
<1>2. n \in Nat /\ m \in Nat BY <1>1
<1>3. Len(all) = n + m /\ \A j \in 1..m : all[n + j] = c[j] BY <1>1, Appended
<1> HIDE DEF n, m, all
<1>4. \A j \in 3..m : all[n + j].kind = "descriptor"
  <2>1. \A j \in 3..m : j \in 1..m BY <1>2
  <2> QED BY <1>1, <1>3, <2>1
<1>5. ASSUME NEW x \in n+2+1..n+m PROVE all[x].kind = "descriptor" /\ \E j \in 3..m : x = n + j
  <2>1. x - n \in 3..m /\ x = n + (x - n) BY <1>2
  <2> QED BY <1>4, <2>1
<1>6. DescriptorsOf(all, n + 2) = {d \in n+2+1..n+m : \A x \in n+2+1..d : all[x].kind = "descriptor"}
  BY <1>3 DEF DescriptorsOf
<1>7. \A d \in n+2+1..n+m : \A x \in n+2+1..d : x \in n+2+1..n+m BY <1>2
<1>8. DescriptorsOf(all, n + 2) = n+2+1..n+m BY <1>5, <1>6, <1>7
<1>9. \A j \in 3..m : n + j \in n+2+1..n+m BY <1>2
<1> QED BY <1>5, <1>8, <1>9 DEF n, m, all

\* What the attributes hold of one entry of the table.
Characteristic(db, h, report) ==
    /\ h \in 1..Len(db)
    /\ References(db, h) = {report}
    /\ report.type = "input" => Subscribable(db, h)

LEMMA CharacteristicKept ==
    ASSUME NEW db \in Seq(AttributeType), NEW c \in Seq(AttributeType), Len(c) >= 1, c[1].kind = "declaration",
           NEW h, NEW report, Characteristic(db, h, report)
    PROVE  Characteristic(db \o c, h, report)
<1>1. h \in 1..Len(db) /\ References(db, h) = {report} /\ (report.type = "input" => Subscribable(db, h))
  BY DEF Characteristic
<1>2. DescriptorsOf(db \o c, h) = DescriptorsOf(db, h) /\ \A d \in DescriptorsOf(db, h) : (db \o c)[d] = db[d]
  BY <1>1, DescriptorsKept
<1>3. (db \o c)[h] = db[h] /\ Len(db \o c) = Len(db) + Len(c) BY <1>1, Appended
<1>4. h \in 1..Len(db \o c)
  <2>1. Len(db) \in Nat /\ Len(c) \in Nat OBVIOUS
  <2> QED BY <1>1, <1>3, <2>1
<1>5. References(db \o c, h) = References(db, h) BY <1>2 DEF References
<1>6. Subscribable(db, h) => Subscribable(db \o c, h) BY <1>2, <1>3 DEF Subscribable
<1> QED BY <1>1, <1>4, <1>5, <1>6 DEF Characteristic

LEMMA CharacteristicNew ==
    ASSUME NEW db \in Seq(AttributeType), NEW c, NEW report, IsChunk(c, report)
    PROVE  Characteristic(db \o c, Len(db) + 2, report)
<1> DEFINE n == Len(db)
           m == Len(c)
           all == db \o c
<1>1. /\ c \in Seq(AttributeType) /\ m >= 3
      /\ c[2].props = ReportProps(report.type)
      /\ \A j \in 3..m : c[j].uuid = "reference" => c[j].value = report
      /\ c[m].uuid = "reference"
      /\ report.type = "input" => \E j \in 3..m : c[j].uuid = "configuration" /\ "write" \in c[j].props
  BY DEF IsChunk
<1>2. n \in Nat /\ m \in Nat BY <1>1
<1>3. Len(all) = n + m /\ \A j \in 1..m : all[n + j] = c[j] BY <1>1, Appended
<1>4. DescriptorsOf(all, n + 2) = {n + j : j \in 3..m} BY DescriptorsNew
<1> HIDE DEF n, m, all
<1>5. \A j \in 3..m : all[n + j] = c[j]
  <2>1. \A j \in 3..m : j \in 1..m BY <1>2
  <2> QED BY <1>3, <2>1
<1>6. m \in 3..m BY <1>1, <1>2
<1>7. References(all, n + 2) = {report}
  <2>1. \A d \in DescriptorsOf(all, n + 2) : all[d].uuid = "reference" => all[d].value = report
    BY <1>1, <1>4, <1>5
  <2>2. n + m \in DescriptorsOf(all, n + 2) /\ all[n + m].uuid = "reference" BY <1>1, <1>4, <1>5, <1>6
  <2>3. all[n + m].value = report BY <2>1, <2>2
  <2> QED BY <2>1, <2>2, <2>3 DEF References
<1>8. ASSUME report.type = "input" PROVE Subscribable(all, n + 2)
  <2>1. all[n + 2].props = ReportProps(report.type)
    <3>1. 2 \in 1..m BY <1>1, <1>2
    <3> QED BY <1>1, <1>3, <3>1
  <2>2. "notify" \in all[n + 2].props BY <1>8, <2>1 DEF ReportProps
  <2>3. PICK j \in 3..m : c[j].uuid = "configuration" /\ "write" \in c[j].props BY <1>1, <1>8
  <2>4. n + j \in DescriptorsOf(all, n + 2) /\ all[n + j].uuid = "configuration" /\ "write" \in all[n + j].props
    BY <1>4, <1>5, <2>3
  <2> QED BY <2>2, <2>4 DEF Subscribable
<1>9. n + 2 \in 1..Len(all) BY <1>1, <1>2, <1>3
<1> QED BY <1>7, <1>8, <1>9 DEF Characteristic, n, m, all

\* It is the one report a host finds more.
LEMMA HostReportsNext ==
    ASSUME NEW db \in Seq(AttributeType), NEW c, NEW report, IsChunk(c, report)
    PROVE  HostReports(db \o c) = HostReports(db) \cup {Len(db) + 2}
<1> DEFINE n == Len(db)
           m == Len(c)
           all == db \o c
           Of(a) == a.kind = "value" /\ a.uuid = "report"
<1>1. /\ c \in Seq(AttributeType) /\ m >= 3 /\ c[1].kind = "declaration" /\ Of(c[2])
      /\ \A j \in 3..m : c[j].kind = "descriptor"
  BY DEF IsChunk
<1>2. n \in Nat /\ m \in Nat BY <1>1
<1>3. DOMAIN all = 1..n + m /\ (\A x \in 1..n : all[x] = db[x]) /\ \A j \in 1..m : all[n + j] = c[j] BY <1>1, Appended
<1>31. HostReports(all) = {h \in 1..n + m : Of(all[h])} BY <1>3 DEF HostReports
<1>32. HostReports(db) = {h \in 1..n : Of(db[h])} BY DEF HostReports
<1> HIDE DEF n, m, all
<1>4. ASSUME NEW h \in 1..n + m, Of(all[h]) PROVE h \in HostReports(db) \cup {n + 2}
  <2>1. CASE h <= n
    <3>1. h \in 1..n BY <1>2, <2>1
    <3> QED BY <1>3, <1>4, <1>32, <3>1
  <2>2. CASE ~(h <= n)
    <3>1. h - n \in 1..m /\ n + (h - n) = h BY <1>2, <2>2
    <3>2. all[h] = c[h - n] BY <1>3, <3>1
    <3>3. h - n # 1 BY <1>1, <1>4, <3>2
    <3>4. h - n \notin 3..m BY <1>1, <1>4, <3>2
    <3>5. h - n = 2 BY <1>2, <3>1, <3>3, <3>4
    <3>6. h = n + 2 BY <1>2, <3>5
    <3> QED BY <3>6
  <2> QED BY <2>1, <2>2
<1>5. n + 2 \in HostReports(all)
  <2>1. 2 \in 1..m /\ n + 2 \in 1..n + m BY <1>1, <1>2
  <2> QED BY <1>1, <1>3, <1>31, <2>1
<1>6. \A h \in HostReports(db) : h \in HostReports(all)
  <2>1. \A h \in 1..n : h \in 1..n + m BY <1>2
  <2> QED BY <1>3, <1>31, <1>32, <2>1
<1>7. HostReports(all) = HostReports(db) \cup {n + 2} BY <1>4, <1>5, <1>6, <1>31
<1> QED BY <1>7 DEF n, all


\* After k iterations: each handle is that of the characteristic of its entry, and they are the reports
\* a host finds.
Layout(table, reports, k) ==
    /\ table \in GattType /\ Len(table.value_handles) = k
    /\ \A i \in 1..k : Characteristic(table.att_db, table.value_handles[i], reports[i])
    /\ \A i, j \in 1..k : table.value_handles[i] = table.value_handles[j] => i = j
    /\ HostReports(table.att_db) = {table.value_handles[i] : i \in 1..k}

LEMMA LayoutBase ==
    ASSUME NEW auto \in BOOLEAN, NEW reports
    PROVE  Layout(GattBase(auto), reports, 0)
<1>1. GattBase(auto) \in GattType BY GattTypes
<1>2. HostReports(FixedServices(auto)) = {}
  <2>1. FixedServices(auto) \in Seq(Other) BY FixedServicesType
  <2>2. \A h \in DOMAIN FixedServices(auto) : FixedServices(auto)[h].uuid # "report" BY <2>1 DEF Other
  <2> QED BY <2>2 DEF HostReports
<1>3. 1..0 = {} OBVIOUS
<1> QED BY <1>1, <1>2, <1>3 DEF Layout, GattBase

LEMMA LayoutNext ==
    ASSUME NEW auto \in BOOLEAN, NEW reports \in Seq(TableEntry), NEW k \in 1..Len(reports),
           NEW table, Layout(table, reports, k - 1)
    PROVE  Layout(AddReport(table, reports[k], auto), reports, k)
<1> DEFINE db == table.att_db
           handles == table.value_handles
           c == Chunk(reports[k], auto)
           next == AddReport(table, reports[k], auto)
           h == Len(db) + 2
<1>1. /\ table \in GattType /\ db \in Seq(AttributeType) /\ handles \in Seq(Nat) /\ Len(handles) = k - 1
      /\ \A i \in 1..k-1 : Characteristic(db, handles[i], reports[i])
      /\ \A i, j \in 1..k-1 : handles[i] = handles[j] => i = j
      /\ HostReports(db) = {handles[i] : i \in 1..k-1}
  BY DEF Layout, GattType
<1>2. k \in Nat /\ k >= 1 /\ reports[k] \in TableEntry OBVIOUS
<1>3. IsChunk(c, reports[k]) BY <1>2, ChunkProperties
<1>4. c \in Seq(AttributeType) /\ Len(c) >= 1 /\ c[1].kind = "declaration" BY <1>3 DEF IsChunk
<1>5. next.value_handles = Append(handles, h) /\ next.att_db = db \o c /\ next \in GattType
  BY <1>1, <1>2, AddReportIs
<1>6. h \in Nat BY <1>1
<1> HIDE DEF c, next
<1>7. Len(next.value_handles) = k
  <2>1. Len(next.value_handles) = Len(handles) + 1 BY <1>1, <1>5, <1>6, AppendProperties
  <2> QED BY <1>1, <1>2, <2>1
<1>8. /\ \A i \in 1..k-1 : next.value_handles[i] = handles[i]
      /\ next.value_handles[k] = h
  <2> HIDE DEF h, handles
  <2>1. Len(handles) + 1 = k BY <1>1, <1>2
  <2> QED BY <1>1, <1>5, <1>6, <2>1, AppendProperties
<1>9. \A i \in 1..k : i = k \/ i \in 1..k-1 BY <1>2
<1>10. \A i \in 1..k-1 : handles[i] # h
  <2>1. \A i \in 1..k-1 : handles[i] \in 1..Len(db) BY <1>1 DEF Characteristic
  <2>2. h \notin 1..Len(db) BY <1>1
  <2> QED BY <2>1, <2>2
<1>11. \A i \in 1..k : Characteristic(next.att_db, next.value_handles[i], reports[i])
  <2>1. \A i \in 1..k-1 : Characteristic(db \o c, handles[i], reports[i]) BY <1>1, <1>4, CharacteristicKept
  <2>2. Characteristic(db \o c, h, reports[k]) BY <1>1, <1>3, CharacteristicNew
  <2> HIDE DEF h, handles, db
  <2> QED BY <1>5, <1>8, <1>9, <2>1, <2>2
<1>12. \A i, j \in 1..k : next.value_handles[i] = next.value_handles[j] => i = j
  <2> HIDE DEF h, handles, db
  <2> QED BY <1>1, <1>8, <1>9, <1>10
<1>13. HostReports(next.att_db) = {next.value_handles[i] : i \in 1..k}
  <2>1. HostReports(db \o c) = HostReports(db) \cup {h} BY <1>1, <1>3, HostReportsNext
  <2>2. \A i \in 1..k-1 : i \in 1..k BY <1>2
  <2>3. k \in 1..k BY <1>2
  <2> HIDE DEF h, handles, db
  <2>4. {next.value_handles[i] : i \in 1..k} = {handles[i] : i \in 1..k-1} \cup {h} BY <1>8, <1>9, <2>2, <2>3
  <2> QED BY <1>1, <1>5, <2>1, <2>4
<1> HIDE DEF h, handles, db
<1>14. Layout(next, reports, k) BY <1>5, <1>7, <1>11, <1>12, <1>13 DEF Layout
<1> QED BY <1>14 DEF next

\* What the set-up builds of a table of reports.
LEMMA GattLayout ==
    ASSUME NEW auto \in BOOLEAN, NEW reports \in Seq(TableEntry)
    PROVE  Layout(build_dynamic_gatt(reports, auto), reports, Len(reports))
<1> DEFINE n == Len(reports)
<1>1. PICK g : IsRun(g, n, GattType, GattBase(auto), GattSteps(reports, auto)) /\ g[n] = build_dynamic_gatt(reports, auto)
  BY GattRun
<1> DEFINE T == {k \in 0..n : Layout(g[k], reports, k)}
<1>2. n \in Nat OBVIOUS
<1>3. 0 \in T
  <2>1. g[0] = GattBase(auto) BY <1>1 DEF IsRun
  <2>2. 0 \in 0..n BY <1>2
  <2> QED BY <2>1, <2>2, LayoutBase
<1>4. ASSUME NEW k \in 1..n, k - 1 \in T PROVE k \in T
  <2>1. Layout(g[k - 1], reports, k - 1) BY <1>4
  <2>2. g[k - 1] \in GattType BY <2>1 DEF Layout
  <2>3. g[k] = GattSteps(reports, auto)[k][g[k - 1]] BY <1>1 DEF IsRun
  <2>4. g[k] = AddReport(g[k - 1], reports[k], auto) BY <2>2, <2>3 DEF GattSteps
  <2>5. Layout(g[k], reports, k) BY <2>1, <2>4, LayoutNext
  <2>6. k \in 0..n BY <1>2
  <2> QED BY <2>5, <2>6
<1>5. \A k \in 0..n : k \in T
  <2> HIDE DEF T, n
  <2> QED BY <1>2, <1>3, <1>4, UpTo
<1>6. n \in 0..n BY <1>2
<1>7. Layout(g[n], reports, n) BY <1>5, <1>6
<1> QED BY <1>1, <1>7


(***************************************************************************)
(* The inductive invariant                                                 *)
(***************************************************************************)
\* What is merged is what the interfaces so far make, ...
MergedSoFar ==
    /\ mounted \in Seq(Descriptors) /\ merged \in MergedType
    /\ Len(itfs) <= Len(mounted)
    /\ merged = MergeAll(SubSeq(mounted, 1, Len(itfs)))

\* ... the table is read off all of it and the attributes are built from the table.
BuiltFromAll ==
    /\ stage \in {"merging", "parsed", "built"} /\ auto_cccd \in BOOLEAN
    /\ stage = "merging" => parsed = NothingParsed
    /\ stage # "merging" => Len(itfs) = Len(mounted) /\ parsed = Parsed(combined.items)
    /\ stage = "built" => gatt = build_dynamic_gatt(parsed.ble_reports, auto_cccd)

IInv == MergedSoFar /\ BuiltFromAll

\* Descriptors of devices are descriptors.
LEMMA MountedType ==
    ASSUME mounted \in Seq(Descriptors)
    PROVE  mounted \in Descs /\ mounted \in Seq(Seq(Item)) /\ \A i \in DOMAIN mounted : mounted[i] \in Seq(Item)
<1>1. \A i \in DOMAIN mounted : mounted[i] \in Seq(Item) BY InterfacesAssumption
<1>2. mounted \in [1..Len(mounted) -> Seq(Item)] /\ Len(mounted) \in Nat BY <1>1
<1>3. mounted \in Seq(Seq(Item)) BY <1>2, IsASeq
<1> QED BY <1>1, <1>3 DEF Descs

LEMMA SomeMounted ==
    ASSUME mounted \in Seq(Descriptors), NEW k \in 0..Len(mounted)
    PROVE  /\ SubSeq(mounted, 1, k) \in Descs /\ Len(SubSeq(mounted, 1, k)) = k
           /\ k = Len(mounted) => SubSeq(mounted, 1, k) = mounted
           /\ k < Len(mounted) => SubSeq(mounted, 1, k + 1) = Append(SubSeq(mounted, 1, k), mounted[k + 1])
<1>1. mounted \in Seq(Seq(Item)) /\ Len(mounted) \in Nat /\ k \in Nat BY MountedType
<1>2. \A j \in 0..Len(mounted) : /\ SubSeq(mounted, 1, j) \in Seq(Seq(Item)) /\ Len(SubSeq(mounted, 1, j)) = j
                                 /\ \A i \in 1..j : SubSeq(mounted, 1, j)[i] = mounted[i]
  BY <1>1
<1>3. ASSUME k = Len(mounted) PROVE SubSeq(mounted, 1, k) = mounted
  BY <1>1, <1>2, <1>3, SeqEqual
<1>4. ASSUME k < Len(mounted) PROVE SubSeq(mounted, 1, k + 1) = Append(SubSeq(mounted, 1, k), mounted[k + 1])
  <2> DEFINE s == SubSeq(mounted, 1, k)
             t == SubSeq(mounted, 1, k + 1)
             d == mounted[k + 1]
  <2>1. k + 1 \in 0..Len(mounted) /\ k + 1 \in 1..Len(mounted) BY <1>1, <1>4
  <2>2. s \in Seq(Seq(Item)) /\ Len(s) = k /\ d \in Seq(Item) BY <1>1, <1>2, <2>1
  <2>3. t \in Seq(Seq(Item)) /\ Len(t) = k + 1 BY <1>2, <2>1
  <2>4. \A i \in 1..k : s[i] = mounted[i] /\ t[i] = mounted[i]
    <3>1. \A i \in 1..k : i \in 1..k+1 BY <1>1
    <3> QED BY <1>2, <2>1, <3>1
  <2>5. t[k + 1] = d
    <3>1. k + 1 \in 1..k+1 BY <1>1
    <3> QED BY <1>2, <2>1, <3>1
  <2> HIDE DEF s, t, d
  <2>6. Append(s, d) \in Seq(Seq(Item)) /\ Len(Append(s, d)) = k + 1 /\ (\A i \in 1..k : Append(s, d)[i] = s[i])
        /\ Append(s, d)[k + 1] = d
    BY <2>2, AppendProperties
  <2>7. \A i \in 1..k+1 : i = k + 1 \/ i \in 1..k BY <1>1
  <2>8. \A i \in 1..k+1 : t[i] = Append(s, d)[i] BY <2>4, <2>5, <2>6, <2>7
  <2>9. t = Append(s, d) BY <2>3, <2>6, <2>8, SeqEqual
  <2> QED BY <2>9 DEF s, t, d
<1>5. SubSeq(mounted, 1, k) \in Descs BY <1>2 DEF Descs
<1> QED BY <1>2, <1>3, <1>4, <1>5

\* What is merged so far has ids for as many interfaces.
LEMMA LengthType == ASSUME MergedSoFar PROVE Len(itfs) \in 0..Len(mounted) /\ itfs \in Seq(AssignedIds)
<1>1. itfs \in Seq(AssignedIds) BY DEF MergedSoFar, MergedType, itfs
<1> QED BY <1>1 DEF MergedSoFar

LEMMA InitInv == Init => IInv
<1> SUFFICES ASSUME Init PROVE IInv OBVIOUS
<1>1. mounted \in Seq(Descriptors)
  <2>1. PICK n \in 1..MaxInterfaces : mounted \in [1..n -> Descriptors] BY DEF Init
  <2>2. n \in Nat BY InterfacesAssumption
  <2> QED BY <2>1, <2>2, IsASeq
<1>2. merged = NothingMerged /\ merged \in MergedType BY MergeTypes DEF Init
<1>3. itfs = <<>> /\ Len(itfs) = 0 BY <1>2 DEF itfs, NothingMerged
<1>4. 0 \in 0..Len(mounted) BY <1>1
<1>5. SubSeq(mounted, 1, 0) = <<>> BY SubSeqEmpty
<1>6. MergedSoFar
  <2>1. SubSeq(mounted, 1, Len(itfs)) = <<>> BY <1>3, <1>5
  <2>2. merged = MergeAll(SubSeq(mounted, 1, Len(itfs))) BY <1>2, <2>1, MergeAllNone
  <2>3. Len(itfs) <= Len(mounted) BY <1>1, <1>3
  <2> QED BY <1>1, <1>2, <2>2, <2>3 DEF MergedSoFar
<1>7. BuiltFromAll BY DEF Init, BuiltFromAll
<1> QED BY <1>6, <1>7 DEF IInv

LEMMA NextInv == IInv /\ [Next]_vars => IInv'
<1> SUFFICES ASSUME IInv, [Next]_vars PROVE IInv' OBVIOUS
<1>0. MergedSoFar /\ BuiltFromAll /\ Len(itfs) \in 0..Len(mounted) /\ mounted \in Seq(Descriptors) /\ merged \in MergedType
  BY LengthType DEF IInv, MergedSoFar
<1>1. CASE MergeInterface
  <2> DEFINE k == Len(itfs)
             d == mounted[k + 1]
             so_far == SubSeq(mounted, 1, k)
  <2>1. k < Len(mounted) /\ merged' = MergeNext(merged, d) /\ UNCHANGED <<mounted, parsed, gatt, stage, auto_cccd>>
    BY <1>1 DEF MergeInterface
  <2>2. k \in 0..Len(mounted) /\ k \in Nat /\ Len(mounted) \in Nat /\ k + 1 \in DOMAIN mounted BY <1>0, <2>1
  <2>3. d \in Seq(Item) BY <1>0, <2>2, MountedType
  <2>4. so_far \in Descs /\ SubSeq(mounted, 1, k + 1) = Append(so_far, d) BY <1>0, <2>1, <2>2, SomeMounted
  <2>5. merged = MergeAll(so_far) BY <1>0 DEF MergedSoFar
  <2> HIDE DEF d, so_far
  <2>6. merged' = MergeAll(SubSeq(mounted, 1, k + 1)) BY <2>1, <2>3, <2>4, <2>5, MergeAppend
  <2>7. merged' \in MergedType BY <1>0, <2>1, <2>3, MergeTypes
  <2>8. Len(itfs') = k + 1
    <3>1. itfs' = Append(itfs, Assigned(d, merged.next_report_id)) BY <2>1 DEF itfs, MergeNext
    <3>2. itfs \in Seq(AssignedIds) BY <1>0, LengthType
    <3> QED BY <3>1, <3>2
  <2>9. Len(itfs') <= Len(mounted) BY <2>1, <2>2, <2>8
  <2>10. MergedSoFar' BY <1>0, <2>1, <2>6, <2>7, <2>8, <2>9 DEF MergedSoFar
  <2>11. stage = "merging"
    <3>1. k # Len(mounted) BY <2>1, <2>2
    <3> QED BY <1>0, <3>1 DEF BuiltFromAll
  <2>12. BuiltFromAll' BY <1>0, <2>1, <2>11 DEF BuiltFromAll
  <2> QED BY <2>10, <2>12 DEF IInv
<1>2. CASE ble_hid_periph_start
  <2>1. /\ Len(itfs) = Len(mounted) /\ stage' = "parsed" /\ parsed' = Parsed(combined.items)
        /\ UNCHANGED <<mounted, merged, gatt, auto_cccd>>
    BY <1>2 DEF ble_hid_periph_start
  <2>2. MergedSoFar' BY <1>0, <2>1 DEF MergedSoFar, itfs
  <2>3. BuiltFromAll' BY <1>0, <2>1 DEF BuiltFromAll, itfs, combined
  <2> QED BY <2>2, <2>3 DEF IInv
<1>3. CASE ble_hid_periph_setup
  <2>1. /\ stage = "parsed" /\ stage' = "built" /\ gatt' = build_dynamic_gatt(parsed.ble_reports, auto_cccd)
        /\ UNCHANGED <<mounted, merged, parsed, auto_cccd>>
    BY <1>3 DEF ble_hid_periph_setup
  <2>2. MergedSoFar' BY <1>0, <2>1 DEF MergedSoFar, itfs
  <2>3. BuiltFromAll' BY <1>0, <2>1 DEF BuiltFromAll, itfs, combined
  <2> QED BY <2>2, <2>3 DEF IInv
<1>4. CASE UNCHANGED vars
  <2>1. MergedSoFar' BY <1>0, <1>4 DEF MergedSoFar, vars, itfs
  <2>2. BuiltFromAll' BY <1>0, <1>4 DEF BuiltFromAll, vars, itfs, combined
  <2> QED BY <2>1, <2>2 DEF IInv
<1> QED BY <1>1, <1>2, <1>3, <1>4 DEF Next

LEMMA Invariant == Spec => []IInv
BY InitInv, NextInv, PTL DEF Spec


\* Once every interface is merged, the state is what all of them make.
LEMMA AllMerged ==
    ASSUME IInv, stage # "merging"
    PROVE  /\ mounted \in Descs /\ merged = MergeAll(mounted) /\ Len(itfs) = Len(mounted)
           /\ combined.items \in Seq(Item) /\ combined.items = MergeAll(mounted).combined.items
           /\ itfs = MergeAll(mounted).itfs /\ parsed = Parsed(combined.items)
<1>1. MergedSoFar /\ BuiltFromAll /\ mounted \in Seq(Descriptors) /\ merged \in MergedType /\ Len(itfs) \in 0..Len(mounted)
  BY LengthType DEF IInv, MergedSoFar
<1>2. Len(itfs) = Len(mounted) /\ parsed = Parsed(combined.items) BY <1>1 DEF BuiltFromAll
<1>3. SubSeq(mounted, 1, Len(itfs)) = mounted BY <1>1, <1>2, SomeMounted
<1>4. merged = MergeAll(mounted) BY <1>1, <1>3 DEF MergedSoFar
<1>5. combined.items \in Seq(Item) BY <1>1 DEF MergedType, Combined, combined
<1> QED BY <1>1, <1>2, <1>4, <1>5, MountedType DEF itfs, combined

(***************************************************************************)
(* The theorems                                                            *)
(***************************************************************************)

\* Every variable keeps its type: next_report_id stays a byte, neither the buffer nor the table is
\* overrun, and combined_desc_len is the length of what the buffer holds, for any number of interfaces
\* and descriptors of any length. (start_combined_ble_bridge, ble_hid_periph_start)
THEOREM MergeTypeCorrect == Spec => []TypeOK
<1>1. IInv => TypeOK
  <2> SUFFICES ASSUME IInv PROVE TypeOK OBVIOUS
  <2>1. MergedSoFar /\ BuiltFromAll /\ mounted \in Seq(Descriptors) /\ merged \in MergedType
    BY DEF IInv, MergedSoFar
  <2>2. merged.next_report_id \in 0..IdMod-1 /\ itfs \in Seq(Entry) /\ merged.combined \in Combined
    BY <2>1 DEF MergedType, itfs, Entry, AssignedIds
  <2>3. combined.bytes \in 0..DescMax /\ combined.bytes = Bytes(combined.items) /\ combined.items \in Seq(Item)
    BY <2>2 DEF Combined, combined
  <2>4. parsed.ble_reports \in Seq(TableEntry) /\ Len(parsed.ble_reports) <= MaxBleReports
    <3>1. CASE stage = "merging"
      <4>1. parsed.ble_reports = <<>> BY <2>1, <3>1 DEF BuiltFromAll, NothingParsed
      <4> QED BY <4>1, DescriptorAssumption
    <3>2. CASE stage # "merging"
      <4>1. parsed = Parsed(combined.items) BY <3>2, AllMerged
      <4> QED BY <2>3, <4>1, TableComplete
    <3> QED BY <3>1, <3>2
  <2>5. combined.bytes <= DescMax BY <2>3, DescriptorAssumption
  <2>6. stage \in {"merging", "parsed", "built"} /\ auto_cccd \in BOOLEAN BY <2>1 DEF BuiltFromAll
  <2>7. Len(itfs) <= Len(mounted) BY <2>1 DEF MergedSoFar
  <2> QED BY <2>1, <2>2, <2>3, <2>4, <2>5, <2>6, <2>7 DEF TypeOK, TableEntry
<1> QED BY <1>1, Invariant, PTL

\* The reports the host finds are the reports of the report map, up to MAX_BLE_REPORTS of them: each
\* characteristic has one Report Reference, to a declared report no other refers to.
\* (build_dynamic_gatt against ble_hid_periph_start)
THEOREM HostFindsReports == Spec => []HostAgrees
<1>1. IInv => HostAgrees
  <2> DEFINE items == combined.items
             reports == parsed.ble_reports
             n == Len(reports)
             handles == gatt.value_handles
             found == HostReports(gatt.att_db)
             declared == Declared(items)
             ref(h) == References(gatt.att_db, h)
  <2> SUFFICES ASSUME IInv, stage = "built"
               PROVE  /\ \A h \in found : \E report \in declared : ref(h) = {report}
                      /\ \A g, h \in found : ref(g) = ref(h) => g = h
                      /\ Cardinality(found) = Min({Cardinality(declared), MaxBleReports})
    BY DEF HostAgrees
  <2>1. items \in Seq(Item) /\ parsed = Parsed(items) BY AllMerged
  <2>2. auto_cccd \in BOOLEAN /\ gatt = build_dynamic_gatt(reports, auto_cccd) BY DEF IInv, BuiltFromAll
  <2>3. /\ reports \in Seq(TableEntry) /\ (\A i \in 1..n : reports[i] \in declared)
        /\ \A i, j \in 1..n : reports[i] = reports[j] => i = j
        /\ n = Min({Cardinality(declared), MaxBleReports})
    <3> HIDE DEF items
    <3>1. DOMAIN Parsed(items).ble_reports = 1..Len(Parsed(items).ble_reports) BY <2>1, TableComplete
    <3> QED BY <2>1, <3>1, TableComplete
  <2>4. Layout(gatt, reports, n) BY <2>2, <2>3, GattLayout
  <2>5. /\ \A i \in 1..n : ref(handles[i]) = {reports[i]}
        /\ \A i, j \in 1..n : handles[i] = handles[j] => i = j
        /\ found = {handles[i] : i \in 1..n}
    BY <2>4 DEF Layout, Characteristic
  <2>6. n \in Nat BY <2>3
  <2> HIDE DEF reports, declared, items, handles, found, ref
  <2>7. \A h \in found : \E report \in declared : ref(h) = {report} BY <2>3, <2>5
  <2>8. \A g, h \in found : ref(g) = ref(h) => g = h
    <3>1. SUFFICES ASSUME NEW i \in 1..n, NEW j \in 1..n, ref(handles[i]) = ref(handles[j]) PROVE handles[i] = handles[j]
      BY <2>5
    <3>2. reports[i] = reports[j] BY <2>5, <3>1
    <3> QED BY <2>3, <3>2
  <2>9. Cardinality(found) = n
    <3> DEFINE f == [i \in 1..n |-> handles[i]]
    <3> HIDE DEF n
    <3>1. f \in [1..n -> found] BY <2>5
    <3>2. \A i, j \in 1..n : f[i] = f[j] => i = j BY <2>5
    <3>3. \A h \in found : \E i \in 1..n : f[i] = h BY <2>5
    <3>4. f \in Bijection(1..n, found) BY <3>1, <3>2, <3>3 DEF Bijection, Injection, Surjection, IsInjective
    <3>5. ExistsBijection(1..n, found) BY <3>4 DEF ExistsBijection
    <3> QED BY <2>6, <3>5, FS_CountingElements
  <2> QED BY <2>3, <2>7, <2>8, <2>9
<1> QED BY <1>1, Invariant, PTL

\* A report an interface sends over USB is notified at a handle where the host can ask for
\* notifications, under the id this interface, and no other, has in the report map.
\* (report_id_offset, single_assigned_report_id, ble_reports, value_handle)
THEOREM ReportsReachHome == Spec => []RoutedHome
<1>1. IInv => RoutedHome
  <2> DEFINE items == combined.items
             reports == parsed.ble_reports
             n == Len(reports)
             handles == gatt.value_handles
  <2> SUFFICES ASSUME IInv, stage = "built", WithinLimits(mounted, items),
                      NEW i \in DOMAIN mounted, NEW id \in InputIdsOf(mounted[i])
               PROVE  LET byte == ForwardedId(itfs[i], id)
                          handle == NotifiedHandle(parsed, handles, byte)
                      IN  /\ handle \in HostReports(gatt.att_db) /\ Subscribable(gatt.att_db, handle)
                          /\ [id |-> byte, type |-> "input"] \in References(gatt.att_db, handle)
                          /\ Declarers(items, byte) = {i}
    BY DEF RoutedHome
  <2> DEFINE byte == ForwardedId(itfs[i], id)
             entry == EntryFor(parsed, byte)
             report == [id |-> byte, type |-> "input"]
  <2>1. /\ mounted \in Descs /\ items \in Seq(Item) /\ items = MergeAll(mounted).combined.items
        /\ itfs = MergeAll(mounted).itfs /\ parsed = Parsed(items)
    BY AllMerged
  <2>2. auto_cccd \in BOOLEAN /\ gatt = build_dynamic_gatt(reports, auto_cccd) BY DEF IInv, BuiltFromAll
  <2>3. /\ Declarers(items, byte) = {i} /\ parsed \in ParseType
        /\ entry \in DOMAIN reports /\ reports[entry] = report
    <3> DEFINE all == MergeAll(mounted)
    <3>1. /\ mounted \in Descs /\ WithinLimits(mounted, MergeAll(mounted).combined.items)
          /\ i \in DOMAIN mounted /\ id \in InputIdsOf(mounted[i])
      BY <2>1
    <3>2. /\ Declarers(all.combined.items, ForwardedId(all.itfs[i], id)) = {i}
          /\ Parsed(all.combined.items) \in ParseType
          /\ EntryFor(Parsed(all.combined.items), ForwardedId(all.itfs[i], id))
               \in DOMAIN Parsed(all.combined.items).ble_reports
          /\ Parsed(all.combined.items).ble_reports[EntryFor(Parsed(all.combined.items), ForwardedId(all.itfs[i], id))]
               = [id |-> ForwardedId(all.itfs[i], id), type |-> "input"]
      <4> HIDE DEF items, reports, byte, entry, report
      <4> QED BY <3>1, ReportHome, Zenon
    <3>3. all.combined.items = items /\ ForwardedId(all.itfs[i], id) = byte BY <2>1
    <3> HIDE DEF all, items, byte
    <3> QED BY <2>1, <3>2, <3>3
  <2>4. reports \in Seq(TableEntry) /\ n \in Nat /\ entry \in 1..n BY <2>3 DEF ParseType
  <2>5. Layout(gatt, reports, n) BY <2>2, <2>4, GattLayout
  <2> HIDE DEF byte, entry, reports
  <2>6. /\ Characteristic(gatt.att_db, handles[entry], report)
        /\ HostReports(gatt.att_db) = {handles[k] : k \in 1..n}
    BY <2>3, <2>4, <2>5 DEF Layout
  <2>7. NotifiedHandle(parsed, handles, byte) = handles[entry]
    <3>1. entry # 0 BY <2>4
    <3> QED BY <3>1 DEF NotifiedHandle, entry
  <2>8. handles[entry] \in HostReports(gatt.att_db) BY <2>4, <2>6
  <2>9. Subscribable(gatt.att_db, handles[entry]) /\ report \in References(gatt.att_db, handles[entry])
    BY <2>6 DEF Characteristic
  <2> QED BY <2>3, <2>7, <2>8, <2>9 DEF byte
<1> QED BY <1>1, Invariant, PTL
=============================================================================
