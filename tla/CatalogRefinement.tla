------------------------- MODULE CatalogRefinement -------------------------
(***************************************************************************)
(* TemplateStore implements TemplateCatalog: how a template appears to     *)
(* those who use it, and which template each export or restore reads.      *)
(***************************************************************************)
EXTENDS TemplateStore

Readers == Exports \cup Restores

Appearance ==
    [t \in Templates |-> IF t \notin templates THEN "absent"
                         ELSE IF Whole \subseteq parts[t] THEN "whole"
                         ELSE "damaged"]
Reads == [o \in Readers |-> IF Active(o) THEN target[o] ELSE Nothing]

Catalog == INSTANCE TemplateCatalog WITH status <- Appearance, reads <- Reads

(* Exports and restores see templates that appear whole and are taken      *)
(* apart only when nobody reads them.                                      *)
CatalogIsAtomic == Catalog!Spec
=============================================================================
