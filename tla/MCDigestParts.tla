---------------------------- MODULE MCDigestParts ----------------------------
(* TLC instance of DigestParts: a disk that fails and recovers, a note about *)
(* it, another entity of its source, the same name at another profile, and  *)
(* a text that both sources send.                                          *)
EXTENDS DigestParts

Said(fp, source, entity, category, useful, taken) ==
    [fp |-> fp, source |-> source, entity |-> entity, category |-> category,
     useful |-> useful, size |-> taken]

MCContent ==
    {Said("fail", 1, "disk", "availability", 1, 2),
     Said("ok", 1, "disk", "recovery", 0, 1),
     Said("note", 1, "disk", "informational", 2, 1),
     Said("host", 1, "host", "availability", 2, 3),
     Said("far", 2, "disk", "recovery", 1, 1),
     Said("note", 2, "host", "informational", 0, 1)}

(* Sources are numbered in the order of their names.                        *)
MCProfileOf == <<"default", "torry">>
=============================================================================
