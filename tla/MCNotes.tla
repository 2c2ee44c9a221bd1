------------------------------ MODULE MCNotes ------------------------------
EXTENDS Notes

ASSUME FewFeeds == ReadableWithinTTL

(* A feed always holds an item without an id, and gains and loses one that  *)
(* has one.                                                                 *)
MCContents == {{NoID}, {NoID} \cup Ids}
=============================================================================
