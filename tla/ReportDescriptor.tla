-------------------------- MODULE ReportDescriptor --------------------------
(***************************************************************************)
(* HID report descriptors, as src/src/usb_hid_host.c merges those of the   *)
(* mounted interfaces into one and src/src/ble_hid_periph.c reads the      *)
(* report characteristics off the result.                                  *)
(*                                                                         *)
(* A descriptor is the sequence of its items.  Of an item the code looks   *)
(* at its kind, at the value of a Report ID and at its length in bytes.    *)
(* "noid" is a Report ID item without a value, "idcut" one whose value     *)
(* lies beyond the end of the descriptor, where the buffer holds a zero.   *)
(* "from", the interface an item comes from, is history.                   *)
(***************************************************************************)
EXTENDS Naturals, Sequences, FiniteSets, SequencesExt

CONSTANTS
    IdMod,          \* a report id is a uint8_t: 2^8
    DescMax,        \* COMBINED_DESC_MAX_LEN, also DYNAMIC_HID_DESC_MAX_LEN
    MaxBleReports   \* MAX_BLE_REPORTS

ASSUME DescriptorAssumption == /\ IdMod \in Nat /\ IdMod > 1
                               /\ DescMax \in Nat /\ MaxBleReports \in Nat

ReportType == {"input", "output", "feature"}
\* Without its value a Report ID takes one byte, with it two or more.
Item == {item \in [kind : {"id", "noid", "idcut", "collection", "other"} \cup ReportType,
                   id : 0..IdMod-1, len : Nat, from : Nat] : item.kind \in {"id", "idcut"} => item.len >= 2}
ReportIdItem(id, from) == [kind |-> "id", id |-> id, len |-> 2, from |-> from]

Positions(desc, kinds) == {p \in DOMAIN desc : desc[p].kind \in kinds}
IdsIn(desc) == {desc[p].id : p \in Positions(desc, {"id"})}

\* What the first scan of a descriptor finds.
HasReportId(desc) == Positions(desc, {"id", "noid", "idcut"}) # {}
MaxId(desc) == IF IdsIn(desc) = {} THEN 0 ELSE CHOOSE m \in IdsIn(desc) : \A n \in IdsIn(desc) : n <= m

(***************************************************************************)
(* Report ids: what an interface is given when next_report_id is next.     *)
(***************************************************************************)
ReportIdOffset(next) == IF next > 1 THEN next - 1 ELSE 0

Assigned(desc, next) ==
    [ has_report_id |-> HasReportId(desc),
      single_assigned_report_id |-> IF HasReportId(desc) THEN 0 ELSE next,
      report_id_offset |-> IF HasReportId(desc) THEN ReportIdOffset(next) ELSE 0 ]

\* How many ids it uses up.
IdsUsed(desc) == IF HasReportId(desc) /\ MaxId(desc) > 0 THEN MaxId(desc) ELSE 1

\* The first byte of a report sent over BLE, from the first byte USB delivered.
ForwardedId(itf, id) ==
    IF itf.has_report_id THEN (id + itf.report_id_offset) % IdMod
    ELSE itf.single_assigned_report_id

(***************************************************************************)
(* The combined descriptor: [items, bytes].  What does not fit is skipped. *)
(***************************************************************************)
Fits(comb, len) == comb.bytes + len <= DescMax
\* Fault: the room left is not looked at.
PutUnchecked(comb, item) == [comb EXCEPT !.items = Append(@, item), !.bytes = @ + item.len]
Put(comb, item) ==
    IF Fits(comb, item.len)
    THEN [comb EXCEPT !.items = Append(@, item), !.bytes = @ + item.len]
    ELSE comb

\* The new Report ID goes after the first Collection that leaves room for it, ...
CopyItem(copy, item, id, from) ==
    LET comb == Put(copy.comb, [item EXCEPT !.from = from])
    IN  IF item.kind = "collection" /\ ~copy.inserted /\ Fits(comb, 2)
        THEN [inserted |-> TRUE, comb |-> Put(comb, ReportIdItem(id, from))]
        ELSE [copy EXCEPT !.comb = comb]
CopyWithoutIds(comb, desc, id, from) ==
    FoldLeft(LAMBDA copy, item : CopyItem(copy, item, id, from), [comb |-> comb, inserted |-> FALSE], desc)

\* Fault: without a Collection no Report ID is inserted.
WithoutFallback(comb, desc, id, from) == CopyWithoutIds(comb, desc, id, from).comb

\* ... or, when there is none, in front of the interface's items.
MergeWithoutIds(comb, desc, id, from) ==
    LET copied == CopyWithoutIds(comb, desc, id, from)
    IN  IF copied.inserted \/ ~Fits(copied.comb, 2) THEN copied.comb
        ELSE [items |-> InsertAt(copied.comb.items, Len(comb.items) + 1, ReportIdItem(id, from)),
              bytes |-> copied.comb.bytes + 2]

\* The interface's own Report IDs are shifted by the offset.
Shifted(item, offset, from) ==
    CASE item.kind = "id" -> ReportIdItem((item.id + offset) % IdMod, from)
      [] item.kind = "idcut" -> [item EXCEPT !.kind = "id", !.id = 0, !.from = from]
      [] OTHER -> [item EXCEPT !.from = from]
MergeWithIds(comb, desc, offset, from) ==
    FoldLeft(LAMBDA copy, item : Put(copy, Shifted(item, offset, from)), comb, desc)

MergeDescriptor(comb, desc, itf, from) ==
    IF itf.has_report_id THEN MergeWithIds(comb, desc, itf.report_id_offset, from)
    ELSE MergeWithoutIds(comb, desc, itf.single_assigned_report_id, from)

\* The state of the loop over the mounted interfaces.
NothingMerged ==
    [next_report_id |-> 1, itfs |-> <<>>, combined |-> [items |-> <<>>, bytes |-> 0]]

\* One iteration.
MergeNext(merged, desc) ==
    LET itf == Assigned(desc, merged.next_report_id)
    IN  [ itfs |-> Append(merged.itfs, itf),
          combined |-> MergeDescriptor(merged.combined, desc, itf, Len(merged.itfs) + 1),
          next_report_id |-> (merged.next_report_id + IdsUsed(desc)) % IdMod ]

MergeAll(descs) == FoldLeft(MergeNext, NothingMerged, descs)

(***************************************************************************)
(* The report characteristics ble_hid_periph_start derives.                *)
(***************************************************************************)
NothingParsed == [current_id |-> 0, use_report_ids |-> FALSE, ble_reports |-> <<>>]

\* One item: a report the table does not hold yet is entered while there is room.
ParseNext(parsed, item) ==
    LET report == [id |-> parsed.current_id, type |-> item.kind]
    IN  CASE item.kind = "id" -> [parsed EXCEPT !.current_id = item.id, !.use_report_ids = TRUE]
          [] /\ item.kind \in ReportType /\ report \notin Range(parsed.ble_reports)
             /\ Len(parsed.ble_reports) < MaxBleReports
             -> [parsed EXCEPT !.ble_reports = Append(@, report)]
          [] OTHER -> parsed

Parsed(items) == FoldLeft(ParseNext, NothingParsed, items)

\* The entry of the table typing_can_send_now finds for a report's first byte; none is 0.
EntryFor(parsed, byte) ==
    LET wanted == [id |-> IF parsed.use_report_ids THEN byte ELSE 0, type |-> "input"]
    IN  SelectInSeq(parsed.ble_reports, LAMBDA report : report = wanted)

(***************************************************************************)
(* What a descriptor of a device says, for the properties                  *)
(***************************************************************************)
\* The last Report ID before position p; none yet is 0.
CurrentId(items, p) ==
    LET before == {q \in Positions(items, {"id"}) : q < p}
    IN  IF before = {} THEN 0 ELSE items[CHOOSE q \in before : \A r \in before : r <= q].id

\* The reports the items declare.
Declared(items) == {[id |-> CurrentId(items, p), type |-> items[p].kind] : p \in Positions(items, ReportType)}

\* Where Report IDs are used, each report has one, and none is 0; where none are, no report
\* stands in front of the first Collection.
WellFormed(desc) ==
    LET collections == Positions(desc, {"collection"})
    IN  /\ Positions(desc, {"noid", "idcut"}) = {} /\ 0 \notin IdsIn(desc)
        /\ \A p \in Positions(desc, ReportType) :
             IF HasReportId(desc) THEN CurrentId(desc, p) # 0
             ELSE collections = {} \/ \E q \in collections : q < p

Total(numbers) == FoldLeft(LAMBDA m, n : m + n, 0, numbers)
Bytes(desc) == Total([p \in DOMAIN desc |-> desc[p].len])
IdsNeeded(descs) == Total([i \in DOMAIN descs |-> IdsUsed(descs[i])])
BytesNeeded(descs) == Total([i \in DOMAIN descs |-> Bytes(descs[i]) + 2])

\* No limit of the code is met by these descriptors, merged into items: all ids, all bytes and
\* all reports fit.
WithinLimits(descs, items) ==
    /\ \A i \in DOMAIN descs : WellFormed(descs[i])
    /\ IdsNeeded(descs) < IdMod /\ BytesNeeded(descs) <= DescMax
    /\ Cardinality(Declared(items)) <= MaxBleReports

\* The first bytes of the input reports a device with this descriptor sends.
InputIdsOf(desc) == {CurrentId(desc, p) : p \in Positions(desc, {"input"})}

\* The interfaces whose items declare a report with this id.
Declarers(items, id) == {items[p].from : p \in {q \in Positions(items, ReportType) : CurrentId(items, q) = id}}
=============================================================================
