---------------------------- MODULE MCCatalogue ----------------------------
(***************************************************************************)
(* Catalogue with two manga, two terms and two servers, which bring two    *)
(* tables up to date.  The seed file is hand made: it has an entry that    *)
(* the collector drops when it writes the file anew.                       *)
(***************************************************************************)
EXTENDS Catalogue

CONSTANTS naruto, bleach, ninja, sword

MCTexts == {{ninja}, {ninja, sword}}
MCSeed == <<[id |-> naruto, text |-> {ninja, sword}], [id |-> bleach, text |-> {ninja}]>>
MCCollected == <<[id |-> bleach, text |-> {ninja}]>>
MCSchema == <<{1}, {2, 3}>>
=============================================================================
