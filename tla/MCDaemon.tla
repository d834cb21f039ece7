------------------------------ MODULE MCDaemon ------------------------------
(***************************************************************************)
(* Small instances of Daemon: a VIA keyboard with its control and its boot *)
(* interface, a GMK67 keyboard's vendor interface and a Bluetooth keyboard.*)
(***************************************************************************)
EXTENDS Daemon, TLC

MCUsbOf == [viaControl |-> "via60", viaBoot |-> "via60", gmkVendor |-> "ek68",
            bluetooth |-> NoUsb]
MCInterface == DOMAIN MCUsbOf

Item(tag, data) == [tag |-> tag, data |-> data]
\* A Logical Maximum of 0x7FFFFFFF comes before the page: its last byte reads as
\* the prefix of a four-byte item to a walker that is one byte behind.
LogicalMaximum == Item(36, <<255, 255, 255, 127>>)
MCItemsOf ==
  [viaControl |-> <<LogicalMaximum, Item(4, <<96, 255>>), Item(148, <<32>>)>>,
   viaBoot |-> <<Item(4, <<1>>), Item(148, <<64>>), Item(36, <<1, 6, 96, 255>>)>>,
   gmkVendor |-> <<Item(4, <<0, 255>>), Item(148, <<64>>), LogicalMaximum, Item(176, <<2>>)>>,
   bluetooth |-> <<Item(4, <<96, 255>>)>>]

ASSUME InterfacesAreTold == ProbesTell

\* More than the interfaces at hand: every descriptor of up to four of these items.
\* The data of some holds what a walker out of step takes for an item it looks for.
MCItems ==
  {LogicalMaximum, Item(4, <<96, 255>>), Item(4, <<96>>), Item(4, <<96, 255, 0, 0>>),
   Item(148, <<64>>), Item(148, <<63>>), Item(148, <<0, 1>>), Item(148, <<>>), Item(176, <<2>>),
   Item(254, <<6, 96, 255, 149, 64, 177, 2>>), Item(36, <<149, 64, 177, 2>>)}
ASSUME WalkersTell ==
  \A length \in 0 .. 4 : \A items \in [1 .. length -> MCItems] :
    LET d == Encode(items) IN
    /\ hid_descriptor_has_usage_page(d, VIA_USAGE_PAGE) <=> DeclaresViaPage(items)
    /\ descriptor_has_feature_report(d, FRAME_LEN) <=> DeclaresFeatureFrame(items)

\* The GMK67 keyboard stays; on the other node anything comes and goes.
MCAtBoot == {[h0 |-> x, h1 |-> "gmkVendor"] : x \in MCInterface \cup {"absent"}}

\* An earlier entry of a keyboard is overwritten, the old driver name still works.
MCEntries == <<[usb |-> "ek68", driver |-> "via"], [usb |-> "via60", driver |-> "typo"],
               [usb |-> "ek68", driver |-> "epomaker"]>>
=============================================================================
