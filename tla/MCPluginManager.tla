---------------------------- MODULE MCPluginManager ----------------------------
(***************************************************************************)
(* Save as JPG and another plugin of that name, which has two categories   *)
(* and can be configured; the CSV export; a provider; a library that is    *)
(* neither.  The browser shows a root with a directory and a file in it.   *)
(***************************************************************************)
EXTENDS PluginManager

CONSTANTS jpg, new, csv, gpx, other, root, folder, photo

TitleOf == [l \in {jpg, new, csv, gpx, other} |->
              CASE l \in {jpg, new} -> "Save as JPG" [] l = csv -> "EXIF to CSV"
                [] OTHER -> "GPX"]
CategoriesOf == [l \in {jpg, new, csv, gpx, other} |->
                   CASE l = jpg -> {"Utilities"}
                     [] l = new -> {"Utilities", "Tests"}
                     [] l = csv -> {"Utilities"}
                     [] OTHER -> {}]
DefaultLibraries == <<csv, gpx, jpg, other>>
SomePaths == {<<new>>, <<csv>>, <<jpg>>, <<gpx>>, DefaultLibraries}
ParentOf == [i \in {root, folder, photo, NoItem} |->
               CASE i = photo -> folder [] i = folder -> root
                 [] OTHER -> NoItem]
=============================================================================
