------------------------ MODULE MCTrampolineRegistry ------------------------
(***************************************************************************)
(* Two functions of the image at granule 4.  The prolog of the second one  *)
(* refers to data of the image, which makes its range smaller: granules 2  *)
(* and 3 can serve the first, 3 alone the second, and a page in granule 1  *)
(* is out of the reach of both.                                            *)
(***************************************************************************)
EXTENDS TrampolineRegistry

MCGran == 5
MCSlotSize == 2
MCReach == 10
MCDispLimit == 15
MCGranules == 5
MCImage == {0, 4}

MCSites == {[func |-> 20, disps |-> {}],
            [func |-> 21, disps |-> {[base |-> 1, target |-> 24]}]}
=============================================================================
