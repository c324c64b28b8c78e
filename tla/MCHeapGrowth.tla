---------------------------- MODULE MCHeapGrowth ----------------------------
(* A page of 4 words (32 bytes for 4096): requests below a page, one of  *)
(* a page aligned to a page, and one across pages.  The bases are aligned *)
(* past any size the model reaches, like the L4 and L3 slots of the real  *)
(* bases.  No layout is aligned beyond a page: neither the kernel nor    *)
(* the user application allocates one.                                   *)
EXTENDS HeapGrowth

MCHeapBase == ("kernel" :> 256) @@ ("user" :> 512)
MCLayouts == {[size |-> 1, align |-> 1], [size |-> 3, align |-> 1],
              [size |-> 4, align |-> 4], [size |-> 5, align |-> 1]}
====
