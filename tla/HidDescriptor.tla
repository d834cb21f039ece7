---------------------------- MODULE HidDescriptor ----------------------------
(***************************************************************************)
(* HID report descriptors and the two walkers that decide which hidraw     *)
(* node of a keyboard is its control interface: the VIA driver looks for   *)
(* Usage Page 0xFF60, the GMK67 driver for a Feature report of 64 bytes.   *)
(* A descriptor is a sequence of bytes, a run of items of varying length;  *)
(* a walker that loses step with the items reads data as prefixes.         *)
(***************************************************************************)
EXTENDS Integers, Sequences

LongItem == 254          \* prefix 0xFE: a data length and a tag follow
UsagePage == 4           \* tag and type of the items the walkers look for
ReportCount == 148
Feature == 176
VIA_USAGE_PAGE == 65376  \* 0xFF60
FRAME_LEN == 64

TagType(prefix) == prefix - (prefix % 4)

\* Data bytes after a short prefix: size code 3 stands for 4.
DataLen(prefix) == IF prefix % 4 = 3 THEN 4 ELSE prefix % 4

\* Where the item after the one at i starts; a long item cut off before its
\* length byte ends the walk.
After(d, i) ==
  CASE d[i] # LongItem -> i + 1 + DataLen(d[i])
    [] i = Len(d) -> Len(d) + 1
    [] OTHER -> i + 3 + d[i + 1]

\* The positions at which the walk finds an item.
Starts(d) ==
  LET from[i \in 1 .. Len(d)] ==
        {i} \cup (IF After(d, i) <= Len(d) THEN from[After(d, i)] ELSE {})
  IN IF d = <<>> THEN {} ELSE from[1]

\* The short items with this tag and type.
Items(d, tag) == {i \in Starts(d) : d[i] # LongItem /\ TagType(d[i]) = tag}

\* All the data of the item at i is there; items without data hold no value.
Whole(d, i) == DataLen(d[i]) > 0 /\ i + DataLen(d[i]) <= Len(d)
Low16(d, i) == d[i + 1] + (IF DataLen(d[i]) > 1 THEN 256 * d[i + 2] ELSE 0)
High16(d, i) == IF DataLen(d[i]) = 4 THEN d[i + 3] + 256 * d[i + 4] ELSE 0

hid_descriptor_has_usage_page(d, target) ==
  \E i \in Items(d, UsagePage) : Whole(d, i) /\ Low16(d, i) = target

\* A Feature item counts under the Report Count that was read last before it; a
\* count whose data is missing reads as zero, and min_count is positive.  The
\* high half of a 32-bit count only matters for being zero or not.
descriptor_has_feature_report(d, min_count) ==
  \E f \in Items(d, Feature), c \in Items(d, ReportCount) :
    /\ c < f
    /\ \A e \in Items(d, ReportCount) : e <= c \/ e > f
    /\ Whole(d, c)
    /\ (Low16(d, c) >= min_count \/ High16(d, c) > 0)

-----------------------------------------------------------------------------
(***************************************************************************)
(* What the walkers are meant to find, said of the items a descriptor is   *)
(* the encoding of: a short item is its tag and type with its data, a long *)
(* item an opaque tail.                                                    *)
(***************************************************************************)
IsShort(item) == item.tag # LongItem
Prefix(item) == item.tag + (IF Len(item.data) = 4 THEN 3 ELSE Len(item.data))
ItemBytes(item) ==
  IF IsShort(item) THEN <<Prefix(item)>> \o item.data
                   ELSE <<LongItem, Len(item.data), 0>> \o item.data
Encode(items) ==
  LET upTo[k \in 0 .. Len(items)] ==
        IF k = 0 THEN <<>> ELSE upTo[k - 1] \o ItemBytes(items[k])
  IN upTo[Len(items)]

Value(item) == (IF Len(item.data) > 0 THEN item.data[1] ELSE 0)
             + (IF Len(item.data) > 1 THEN 256 * item.data[2] ELSE 0)
             + (IF Len(item.data) > 2 THEN 65536 * item.data[3] ELSE 0)

DeclaresViaPage(items) ==
  \E k \in DOMAIN items : items[k].tag = UsagePage /\ Value(items[k]) = VIA_USAGE_PAGE
DeclaresFeatureFrame(items) ==
  \E j, k \in DOMAIN items :
    /\ j < k
    /\ items[j].tag = ReportCount /\ Value(items[j]) >= FRAME_LEN
    /\ items[k].tag = Feature
    /\ \A i \in (j + 1) .. (k - 1) : items[i].tag # ReportCount
=============================================================================
