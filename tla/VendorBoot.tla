----------------------------- MODULE VendorBoot -----------------------------
(***************************************************************************)
(* The vendor_boot partition around its device trees: a page-aligned       *)
(* layout of DTB section, ramdisk table and bootconfig, the AVB metadata   *)
(* behind it, and the rebuild of all of it when one tree changes size.     *)
(*                                                                         *)
(* An image is the three section sizes of its header and the cells from    *)
(* the DTB section to the end of the partition; the header page and the    *)
(* ramdisk before them are never touched.  The last cell is the AVB        *)
(* footer, which says where the authenticated payload ends and where the   *)
(* hash descriptor lies.                                                   *)
(***************************************************************************)
EXTENDS Fdt, FiniteSetsExt

Page == 2   \* cells of a page
Reserved == 2   \* cells the AVB metadata needs behind the payload

Vbmeta == [t |-> "Vbmeta"]
Footer(size, at) == [t |-> "Footer", original_size |-> size, vbmeta_at |-> at]

Up(n) == ((n + Page - 1) \div Page) * Page
Higher(a, b) == IF a > b THEN a ELSE b
Zeros(n) == [i \in 1..n |-> Zero]
AllZero(cells) == ToSet(cells) \subseteq {Zero}

\* parse_vendor_boot_layout: where the sections start.
table_start(image)  == Up(image.dtb_size)
config_start(image) == table_start(image) + Up(image.table_size)
used_end(image)     == config_start(image) + Up(image.config_size)

dtb(image) == SubSeq(image.cells, 1, image.dtb_size)
ramdisk_table(image) == SubSeq(image.cells, table_start(image) + 1, table_start(image) + image.table_size)
bootconfig(image) == SubSeq(image.cells, config_start(image) + 1, config_start(image) + image.config_size)

\* The concatenated trees, up to zero padding; <<>> where one has no header or
\* does not fit.
fdt_ranges(section) ==
  LET n == Len(section)
      Sound(i) == section[i + 1].t = "Fdt" /\ i + section[i + 1].total_size <= n
      from[i \in 0..n] ==
        IF AllZero(SubSeq(section, i + 1, n)) THEN <<>>
        ELSE IF ~Sound(i) THEN << [first |-> i + 1, last |-> 0] >>
        ELSE << [first |-> i + 1, last |-> i + section[i + 1].total_size] >>
             \o from[i + section[i + 1].total_size]
      ranges == from[0]
  IN IF \E r \in ToSet(ranges) : r.last = 0 THEN <<>> ELSE ranges

blobs(image) ==
  LET ranges == fdt_ranges(dtb(image))
  IN [k \in DOMAIN ranges |-> SubSeq(image.cells, ranges[k].first, ranges[k].last)]

\* inspect_vendor_boot_gpu_candidates: the trees with a table and a chip of
\* their own; one tree that does not parse fails the inspection.
CandidateTrees(found) ==
  IF \E p \in ToSet(found) : p.error THEN {}
  ELSE {[index |-> k, chip |-> found[k].chip[1], table |-> found[k].table] :
          k \in {x \in DOMAIN found : found[x].table # <<>> /\ found[x].chip # <<>>}}
Parsed(trees) == [k \in DOMAIN trees |-> parse_fdt(trees[k])]
gpu_candidates(image) ==
  IF used_end(image) > Len(image.cells) THEN {} ELSE CandidateTrees(Parsed(blobs(image)))

\* Fault: the sections behind the trees stay where they were.
SectionsStay(image, new_dtb) ==
  IF Len(new_dtb) > Up(image.dtb_size) THEN <<>>
  ELSE << [image EXCEPT !.dtb_size = Len(new_dtb),
             !.cells = new_dtb \o SubSeq(@, Len(new_dtb) + 1, Len(@))] >>

\* The sections move with the size of the trees; growth takes zeros only, and
\* what a shrinking payload gives up is cleared.
rebuild_vendor_boot(image, new_dtb) ==
  LET new == [image EXCEPT !.dtb_size = Len(new_dtb)]
      cleared_end == Higher(used_end(image), used_end(new))
      Padded(cells, to) == cells \o Zeros(to - Len(cells))
      payload == Padded(Padded(Padded(new_dtb, table_start(new)) \o ramdisk_table(image),
                               config_start(new)) \o bootconfig(image), cleared_end)
  IN IF \/ used_end(new) > Len(image.cells)
        \/ ~AllZero(SubSeq(image.cells, used_end(image) + 1, used_end(new)))
     THEN <<>>
     ELSE << [new EXCEPT !.cells = payload \o SubSeq(@, cleared_end + 1, Len(@))] >>

\* replace_vendor_boot_dtb: one tree replaced, its neighbours kept.
ReplaceRange(image, range, replacement) ==
  IF replacement = <<>> THEN <<>>
  ELSE rebuild_vendor_boot(image, SubSeq(image.cells, 1, range.first - 1) \o replacement[1]
                                  \o SubSeq(image.cells, range.last + 1, image.dtb_size))
replace_vendor_boot_dtb(image, target, chip, table) ==
  LET range == fdt_ranges(dtb(image))[target]
  IN ReplaceRange(image, range,
       replace_fdt_gpu_table(SubSeq(image.cells, range.first, range.last), chip, table))

\* The AVB tail is disposable, the payload before it is not.
Patchable(image, footer) ==
  [image EXCEPT !.cells = SubSeq(@, 1, footer.original_size) \o Zeros(Len(@) - footer.original_size)]

\* Under AVB the file is a whole partition with a new footer; under the GBL
\* it ends with the payload, and what lies behind stays on the device.
Written(image, rebuilt, size, gbl_verified) ==
  LET capacity == Len(image.cells)
      file == SubSeq(rebuilt.cells, 1, size)
  IN IF size > capacity - Reserved THEN <<>>
     ELSE << [rebuilt EXCEPT !.cells =
               IF gbl_verified THEN file \o SubSeq(image.cells, size + 1, capacity)
               ELSE file \o <<Vbmeta>> \o Zeros(capacity - size - 2) \o <<Footer(size, size + 1)>>] >>

Truncated(image, footer, rebuilt, gbl_verified) ==
  IF rebuilt = <<>> THEN <<>>
  ELSE Written(image, rebuilt[1], Higher(footer.original_size, used_end(rebuilt[1])), gbl_verified)

\* build_konabess_avb_images_from_export: what the partition holds once the
\* rebuilt image is written over it; <<>> where the build fails.
build(image, target, chip, table, gbl_verified) ==
  LET footer == Last(image.cells)
  IN IF footer.t # "Footer" \/ image.cells[footer.vbmeta_at] # Vbmeta
        \/ used_end(image) > footer.original_size
     THEN <<>>
     ELSE Truncated(image, footer,
            replace_vendor_boot_dtb(Patchable(image, footer), target, chip, table), gbl_verified)
=============================================================================
