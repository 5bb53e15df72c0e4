--------------------------- MODULE DescriptorMerge ---------------------------
(***************************************************************************)
(* From the mounted interfaces to what the BLE host finds:                 *)
(* start_combined_ble_bridge of src/src/usb_hid_host.c gives one interface *)
(* after the other its report ids and appends its descriptor to the        *)
(* combined one; ble_hid_periph_start reads the table of reports off it;   *)
(* the set-up on core 1 builds the attributes.                             *)
(***************************************************************************)
EXTENDS GattDatabase

CONSTANTS
    Descriptors,        \* report descriptors of devices
    MaxInterfaces       \* MAX_BRIDGED_INTERFACES

ASSUME InterfacesAssumption == MaxInterfaces \in Nat /\ Descriptors \subseteq Seq(Item)

VARIABLES
    mounted,            \* the descriptors of mounted_itfs
    merged,             \* next_report_id, the ids given and the combined descriptor so far
    parsed,             \* the table of reports ble_hid_periph_start finds
    gatt,               \* the attributes and the value handles of the table
    stage,              \* "merging", "parsed", "built"
    auto_cccd           \* whether BTstack adds client configurations itself

vars == <<mounted, merged, parsed, gatt, stage, auto_cccd>>

itfs == merged.itfs
combined == merged.combined
NothingBuilt == [value_handles |-> <<>>, att_db |-> <<>>]

Init ==
    /\ mounted \in UNION {[1..n -> Descriptors] : n \in 1..MaxInterfaces}
    /\ merged = NothingMerged
    /\ parsed = NothingParsed /\ gatt = NothingBuilt /\ stage = "merging" /\ auto_cccd \in BOOLEAN

\* One iteration of the loop over the mounted interfaces.
MergeInterface ==
    /\ Len(itfs) < Len(mounted)
    /\ merged' = MergeNext(merged, mounted[Len(itfs) + 1])
    /\ UNCHANGED <<mounted, parsed, gatt, stage, auto_cccd>>

\* The call after the loop.
ble_hid_periph_start ==
    /\ stage = "merging" /\ Len(itfs) = Len(mounted)
    /\ stage' = "parsed"
    /\ parsed' = Parsed(combined.items)
    /\ UNCHANGED <<mounted, merged, gatt, auto_cccd>>

\* The callback it has registered, on core 1.
ble_hid_periph_setup ==
    /\ stage = "parsed"
    /\ stage' = "built"
    /\ gatt' = build_dynamic_gatt(parsed.ble_reports, auto_cccd)
    /\ UNCHANGED <<mounted, merged, parsed, auto_cccd>>

Next == MergeInterface \/ ble_hid_periph_start \/ ble_hid_periph_setup

Spec == Init /\ [][Next]_vars

-----------------------------------------------------------------------------
(***************************************************************************)
(* Properties                                                              *)
(***************************************************************************)
Entry == [has_report_id : BOOLEAN, single_assigned_report_id : 0..IdMod-1, report_id_offset : 0..IdMod-1]

\* Every variable keeps its type: next_report_id is a byte, neither the buffer nor the table is
\* overrun, and combined_desc_len is the length of what the buffer holds.
TypeOK ==
    /\ mounted \in Seq(Descriptors)
    /\ merged.next_report_id \in 0..IdMod-1
    /\ itfs \in Seq(Entry) /\ Len(itfs) <= Len(mounted)
    /\ stage \in {"merging", "parsed", "built"} /\ auto_cccd \in BOOLEAN
    /\ parsed.ble_reports \in Seq([id : 0..IdMod-1, type : ReportType]) /\ Len(parsed.ble_reports) <= MaxBleReports
    /\ combined.bytes <= DescMax
    /\ combined.bytes = Bytes(combined.items)

\* A report an interface sends over USB is notified at a handle where the host can ask for
\* notifications, under the id this interface, and no other, has in the report map.
\* (report_id_offset, single_assigned_report_id, ble_reports, value_handle)
RoutedHome ==
    (stage = "built" /\ WithinLimits(mounted, combined.items)) =>
        \A i \in DOMAIN mounted : \A id \in InputIdsOf(mounted[i]) :
            LET byte == ForwardedId(itfs[i], id)
                handle == NotifiedHandle(parsed, gatt.value_handles, byte)
            IN  /\ handle \in HostReports(gatt.att_db) /\ Subscribable(gatt.att_db, handle)
                /\ [id |-> byte, type |-> "input"] \in References(gatt.att_db, handle)
                /\ Declarers(combined.items, byte) = {i}

\* The reports the host finds are the reports of the report map, up to MAX_BLE_REPORTS of them:
\* each characteristic has one Report Reference, to a declared report no other refers to.
\* (build_dynamic_gatt against ble_hid_periph_start)
HostAgrees ==
    stage = "built" =>
        LET found == HostReports(gatt.att_db)
            declared == Declared(combined.items)
        IN  /\ \A h \in found : \E report \in declared : References(gatt.att_db, h) = {report}
            /\ \A g, h \in found : References(gatt.att_db, g) = References(gatt.att_db, h) => g = h
            /\ Cardinality(found) = Min({Cardinality(declared), MaxBleReports})

\* The ids interface i may send.
IdsOf(i) ==
    IF itfs[i].has_report_id THEN {ForwardedId(itfs[i], id) : id \in IdsIn(mounted[i])}
    ELSE {ForwardedId(itfs[i], 0)}

\* "add offset to prevent collisions", for whatever ids the devices use.
OffsetsPreventCollisions == \A i, j \in DOMAIN itfs : i # j => IdsOf(i) \cap IdsOf(j) = {}
=============================================================================
