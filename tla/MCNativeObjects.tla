-------------------------- MODULE MCNativeObjects --------------------------
EXTENDS NativeObjects

MCAreas == {"environment", "device", "tensor", "binding", "session", "entries", "cuda", "run",
            "lane", "laneset", "model", "operator", "provider", "layout"}
MCMaxObjects ==
    [a \in MCAreas |->
        CASE a \in {"session", "run", "binding", "lane", "laneset", "provider"} -> 5
          [] a \in {"environment", "device", "tensor", "cuda", "model", "operator", "layout"} -> 4
          [] a = "entries" -> 3]
MCShapes == UNION {[1..n -> {-1, 0, 1, 3, 7, 11}] : n \in 0..2}
Interchangeable == Permutations(Ids)
=============================================================================
