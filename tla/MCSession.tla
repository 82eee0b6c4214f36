----------------------------- MODULE MCSession -----------------------------
(***************************************************************************)
(* Session for TLC.  The instances scale the limits of RFC 2348 and 2349   *)
(* down (block sizes 2 .. 5 with default 3 in a field of 8 values, a       *)
(* timeout of 1 or 2, at most 3 blocks in a window in a field of 4), and   *)
(* request values below, at and above each limit.                          *)
(***************************************************************************)
EXTENDS Session

(* A list with the given block size and window, and nothing else.          *)
WithSizes(blksize, windowsize) ==
    [NoOptions EXCEPT !["blksize"] = blksize, !["windowsize"] = windowsize]

MCOptions ==
    {NoOptions}
        \cup {WithSizes(b, w) : b \in {None, 1, 2, 3, 4, 6}, w \in {None, 0, 2, 4}}
        \cup {[NoOptions EXCEPT !["tsize"] = 0, !["timeout"] = t] : t \in 0 .. 3}

(* A write with a block size other than the default one.                   *)
MCWriteBlockSizes == {WithSizes(2, None), WithSizes(5, None)}

(* What another server might answer: options nobody asked for, values      *)
(* beyond what was asked for, beyond the width of their fields, of 0, and  *)
(* such as are no numbers.                                                 *)
MCForeignOacks ==
    {WithSizes(5, None), WithSizes(None, 2), WithSizes(2, 2), WithSizes(None, 5),
     WithSizes(11, None), WithSizes(0, None), WithSizes(Malformed, 2),
     [NoOptions EXCEPT !["tsize"] = Malformed]}
=============================================================================
