----------------------------- MODULE GattDatabase -----------------------------
(***************************************************************************)
(* The attribute table build_dynamic_gatt of src/src/ble_hid_periph.c has  *)
(* BTstack build, and what a host reads off it.                            *)
(*                                                                         *)
(* The table is the sequence of its attributes; the handle of an attribute *)
(* is its place.  The host's reading is that of the HID over GATT profile: *)
(* the descriptors of a characteristic are those between its value and the *)
(* next declaration.  Services are named by what they are for.             *)
(***************************************************************************)
EXTENDS ReportDescriptor

(***************************************************************************)
(* att_db_util of BTstack: each call appends attributes.  auto_cccd says   *)
(* whether it adds a client configuration to what can be notified itself.  *)
(***************************************************************************)
Attribute(kind, uuid, props, secure, value) ==
    [kind |-> kind, uuid |-> uuid, props |-> props, secure |-> secure, value |-> value]

NoValue == [id |-> 0, type |-> "none"]

att_db_util_add_service_uuid16(uuid) == <<Attribute("service", uuid, {"read"}, {}, NoValue)>>

att_db_util_add_descriptor_uuid16(uuid, props, secure, value) ==
    <<Attribute("descriptor", uuid, props, secure, value)>>

\* A declaration and the value: the handle of the value is the second one.
att_db_util_add_characteristic_uuid16(uuid, props, secure, auto_cccd) ==
    << Attribute("declaration", uuid, {"read"}, {}, NoValue), Attribute("value", uuid, props, secure, NoValue) >>
    \o IF auto_cccd /\ "notify" \in props
       THEN att_db_util_add_descriptor_uuid16("configuration", {"read", "write"}, secure \ {"read"}, NoValue)
       ELSE <<>>

(***************************************************************************)
(* build_dynamic_gatt                                                      *)
(***************************************************************************)
\* A characteristic of the services around the reports: open to everybody.
Open(uuid, props) == att_db_util_add_characteristic_uuid16(uuid, props, {}, FALSE)

FixedServices(auto_cccd) ==
    \* GAP, GATT and Device Information
    att_db_util_add_service_uuid16("access")
    \o Open("name", {"read"}) \o Open("appearance", {"read"}) \o Open("connection parameters", {"read"})
    \o att_db_util_add_service_uuid16("attribute")
    \o att_db_util_add_service_uuid16("device")
    \o Open("manufacturer", {"read"}) \o Open("PnP id", {"read"})
    \o att_db_util_add_service_uuid16("battery")
    \o att_db_util_add_characteristic_uuid16("battery level", {"read", "notify"}, {}, auto_cccd)
    \o att_db_util_add_descriptor_uuid16("configuration", {"read", "write"}, {}, NoValue)
    \o att_db_util_add_service_uuid16("HID")
    \o Open("HID information", {"read"}) \o Open("protocol mode", {"read", "write"})
    \o Open("control point", {"write"}) \o Open("report map", {"read"})

ReportProps(type) == {"read"} \cup (IF type = "input" THEN {"notify"} ELSE {"write"})

Configuration(type) ==
    IF type = "input" THEN att_db_util_add_descriptor_uuid16("configuration", {"read", "write"}, {"write"}, NoValue)
    ELSE <<>>

\* Fault: only what can be notified is given a Report Reference.
InputReferenceOnly(report) ==
    Configuration(report.type)
    \o IF report.type = "input" THEN att_db_util_add_descriptor_uuid16("reference", {"read"}, {}, report) ELSE <<>>
\* What follows a report's value.
ReportDescriptors(report) ==
    Configuration(report.type) \o att_db_util_add_descriptor_uuid16("reference", {"read"}, {}, report)

\* One iteration of the loop over ble_reports.
AddReport(gatt, report, auto_cccd) ==
    [ value_handles |-> Append(gatt.value_handles, Len(gatt.att_db) + 2),
      att_db |-> gatt.att_db
                 \o att_db_util_add_characteristic_uuid16("report", ReportProps(report.type), {"read", "write"}, auto_cccd)
                 \o ReportDescriptors(report) ]

build_dynamic_gatt(ble_reports, auto_cccd) ==
    FoldLeft(LAMBDA gatt, report : AddReport(gatt, report, auto_cccd),
             [value_handles |-> <<>>, att_db |-> FixedServices(auto_cccd)], ble_reports)

\* The handle typing_can_send_now notifies for a report's first byte; 0 is none.
NotifiedHandle(parsed, value_handles, byte) ==
    LET entry == EntryFor(parsed, byte) IN IF entry = 0 THEN 0 ELSE value_handles[entry]

(***************************************************************************)
(* What a host finds                                                       *)
(***************************************************************************)
HostReports(att_db) == {h \in DOMAIN att_db : att_db[h].kind = "value" /\ att_db[h].uuid = "report"}

DescriptorsOf(att_db, handle) ==
    {d \in handle+1..Len(att_db) : \A h \in handle+1..d : att_db[h].kind = "descriptor"}

References(att_db, handle) ==
    {att_db[d].value : d \in {e \in DescriptorsOf(att_db, handle) : att_db[e].uuid = "reference"}}

\* It can ask for notifications.
Subscribable(att_db, handle) ==
    /\ "notify" \in att_db[handle].props
    /\ \E d \in DescriptorsOf(att_db, handle) : att_db[d].uuid = "configuration" /\ "write" \in att_db[d].props
=============================================================================
