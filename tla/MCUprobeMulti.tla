---------------------------- MODULE MCUprobeMulti ----------------------------
(* UprobeMulti for TLC: two offsets, two cookies, slices of up to two     *)
(* entries, and a model value for memory past the cookies slice.        *)
EXTENDS UprobeMulti
CONSTANTS o1, o2, c1, c2, garbage
MCOffsets == {o1, o2}
MCCookies == {c1, c2}
MCMaxLen == 2
=============================================================================
