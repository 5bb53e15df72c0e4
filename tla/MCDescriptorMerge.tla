-------------------------- MODULE MCDescriptorMerge --------------------------
(***************************************************************************)
(* Small instances of DescriptorMerge: descriptors with and without Report *)
(* IDs, with and without a Collection, malformed ones, and ids that run    *)
(* past the last one.                                                      *)
(***************************************************************************)
EXTENDS DescriptorMerge

MCItem(kind, len) == [kind |-> kind, id |-> 0, len |-> len, from |-> 0]
MCId(id) == ReportIdItem(id, 0)
MCUsage == MCItem("other", 2)
MCCollection == MCItem("collection", 2)
MCInput == MCItem("input", 2)
MCOutput == MCItem("output", 2)
MCFeature == MCItem("feature", 2)

MCKeyboard == <<MCUsage, MCCollection, MCInput, MCOutput, MCInput>>
MCMouse == <<MCUsage, MCCollection, MCCollection, MCInput>>
MCBare == <<MCUsage, MCInput>>
MCComposite == <<MCCollection, MCId(1), MCInput, MCCollection, MCId(2), MCInput, MCFeature>>
MCGamepad == <<MCCollection, MCId(3), MCInput, MCOutput>>
MCValueless == <<MCCollection, MCItem("noid", 1), MCInput>>
MCCut == <<MCCollection, MCId(1), MCInput, MCItem("idcut", 2)>>
MCVendor == <<MCCollection, MCId(240), MCInput>>
MCStray == <<MCInput, MCCollection, MCOutput>>
MCGaming == <<MCCollection, MCId(1), MCInput, MCId(240), MCInput>>
MCReceiver == <<MCCollection, MCId(16), MCInput, MCId(17), MCInput>>

MCDescriptors == {MCKeyboard, MCMouse, MCBare, MCComposite, MCGamepad, MCValueless, MCCut, MCVendor, MCStray}
MCHighIds == {MCKeyboard, MCGaming, MCReceiver}
=============================================================================
