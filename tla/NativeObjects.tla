--------------------------- MODULE NativeObjects ---------------------------
(***************************************************************************)
(* The whole ownership model: every part of the API, each explored on its  *)
(* own from the objects it needs, with drops in every order, and the       *)
(* layout of the buffers, which needs no objects.                          *)
(***************************************************************************)
EXTENDS NativeLanes, NativeProviders, NativeAuthoring, NativeTensors, TensorLayout

\* The heap that holds these objects, in places of their own.
Places == SetToSeq(Ids)
Place(k) == Places[k]
Heap(objects) ==
    [i \in Ids |-> IF \E k \in DOMAIN objects : Place(k) = i
                    THEN objects[CHOOSE k \in DOMAIN objects : Place(k) = i] ELSE Free]

EnvObject == Object("env", <<>>, {})
SessionObject == Object("session", <<Place(1)>>, {Place(1)})
StreamObject == Object("cudastream", <<>>, {})
PlainSession == Object("session", <<>>, {})

Init ==
    /\ \/ area \in Areas \cap {"environment", "device", "tensor", "model", "operator", "provider",
                             "entries", "layout"} /\ heap = Heap(<<>>)
       \/ area \in Areas \cap {"binding"} /\ heap = Heap(<<EnvObject, SessionObject>>)
       \/ /\ area \in Areas \cap {"session"}
          /\ heap = Heap(<<EnvObject, Object("tensorbuffer", <<>>, {})>>)
       \/ area \in Areas \cap {"cuda"} /\ heap = Heap(<<EnvObject, StreamObject>>)
       \/ area \in Areas \cap {"run"} /\ heap = Heap(<<EnvObject, EnvObject>>)
       \/ /\ area \in Areas \cap {"lane", "laneset"}
          /\ heap \in {Heap(<<StreamObject, SessionObject>>), Heap(<<StreamObject, PlainSession>>),
                      Heap(<<PlainSession, PlainSession>>)}
    /\ dropping = <<>>
    /\ leaked = "nothing"
    /\ LayoutInit

Call ==
    \/ area = "environment" /\ EnvironmentNext
    \/ area = "device" /\ DeviceNext
    \/ area = "tensor" /\ TensorNext
    \/ area = "binding" /\ BindingNext
    \/ area = "session" /\ SessionNext
    \/ area = "entries" /\ EntriesNext
    \/ area = "cuda" /\ CudaNext
    \/ area = "run" /\ RunNext
    \/ area = "lane" /\ LaneNext
    \/ area = "laneset" /\ LaneSetNext
    \/ area = "model" /\ ModelNext
    \/ area = "operator" /\ OperatorNext
    \/ area = "provider" /\ ProviderNext
    \/ \E i \in Objects : DropHandle(i)

Next ==
    \/ ((dropping = <<>> /\ Call) \/ DropStep) /\ UNCHANGED layoutVars
    \/ area = "layout" /\ LayoutNext /\ UNCHANGED vars

Spec == Init /\ [][Next]_<<vars, layoutVars>>
=============================================================================
