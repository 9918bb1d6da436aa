-------------------------- MODULE NativeAuthoring --------------------------
(***************************************************************************)
(* Model building and the authoring of operators and providers             *)
(* (model_editor.rs, type_info.rs, custom_ops.rs, ep_authoring.rs,         *)
(* append_ep_device in ep.rs).  Here ownership crosses into the engine: a  *)
(* call that succeeds moves a native object into another one and forgets   *)
(* the wrapper, a call that fails leaves it to the wrapper's Drop, and     *)
(* boxes leaked to the engine come back through release callbacks.  The    *)
(* lifetimes these APIs cannot express are duties of the caller, and are   *)
(* borrows.                                                                *)
(***************************************************************************)
EXTENDS NativeSessions

\* Ownership goes to the engine on success and stays with the wrapper on failure.
Gives(i, j) == MovesInto(i, j) \/ Refuses(<<i>>)

(***************************************************************************)
(* Types                                                                   *)
(***************************************************************************)
\* TensorTypeAndShapeInfo::new, from_owning.
TensorTypeAndShapeInfo == Make(Object("shapeinfo", <<>>, {}))

\* RuntimeTypeInfo: owning, with views that borrow it.
RuntimeTypeInfo == Make(Object("runtimetype", <<>>, {}))
TypeView ==
    \E t \in Held("runtimetype") : Make(Borrowing(Object("typeview", <<>>, {t}), {t}))

\* TypeInfo::tensor, sparse_tensor; map, sequence, optional: the type read is copied.
TypeInfo == HeldOf({"shapeinfo", "typeinfo"}) # {} /\ Make(Object("typeinfo", <<>>, {}))

\* ValueInfo::new: the type is copied into the value info.
ValueInfo == Held("typeinfo") # {} /\ Make(Object("valueinfo", <<>>, {}))

(***************************************************************************)
(* Graphs and models                                                       *)
(***************************************************************************)
NodeAttr == Make(Object("attr", <<>>, {}))

\* CreateNode failed: the attributes are still the wrapper's.
NodeFails(as) == Refuses(as)

\* Node::with_attributes: the node takes the attributes when it is created.
with_attributes ==
    \E as \in AtMostOne(Movable("attr")) :
        \/ /\ Room(1)
           /\ heap' = [i \in Ids |-> IF i = New THEN Object("node", <<>>, {})
                                      ELSE IF i \in ToSet(as) THEN Free ELSE heap[i]]
           /\ UNCHANGED <<area, dropping, leaked>>
        \/ NodeFails(as)

Graph == Make(Object("graph", <<>>, {}))

\* set_inputs, set_outputs, add_node: value infos and nodes become part of the graph.
set_inputs == \E g \in Held("graph"), v \in Movable("valueinfo") : Gives(v, g)
add_node == \E g \in Held("graph"), n \in Movable("node") : Gives(n, g)

\* The two tensors an initializer can be: a copy, or a view of caller memory.
CallerTensor ==
    \/ Make(Object("tensor", <<>>, {}))
    \/ \E d \in Held("data") : Make(Borrowing(Object("tensor", <<>>, {d}), {d}))
CallerBytes == Make(Object("data", <<>>, {}))

\* add_initializer: with external data the graph goes on pointing to caller memory.
add_initializer == \E g \in Held("graph"), t \in Movable("tensor") : Gives(t, g)

Model == Make(Object("model", <<>>, {}))
add_graph == \E m \in Held("model"), g \in Movable("graph") : Gives(g, m)

\* ModelCompilationOptions::new, set_input_model (the model "must outlive compile") and
\* set_input_model_from_buffer_with_external_data (the guard of the spooled file must be
\* kept until compile; it is removed when the path is refused).
ModelCompilationOptions == Make(Object("compileoptions", <<>>, {}))

set_input_model ==
    \E c \in Held("compileoptions"), m \in Held("model") :
        /\ heap[c].uses = {}
        /\ heap' = [heap EXCEPT ![c].uses = {m}, ![c].borrows = {m}]
        /\ UNCHANGED <<area, dropping, leaked>>

set_input_model_from_buffer_with_external_data ==
    \E c \in Held("compileoptions") :
        /\ heap[c].uses = {} /\ Room(1)
        /\ \/ /\ heap' = [heap EXCEPT ![New] = Object("spool", <<>>, {}),
                                      ![c].uses = {New}, ![c].borrows = {New}]
              /\ UNCHANGED dropping
           \/ /\ heap' = [heap EXCEPT ![New] = Owned(Object("spool", <<>>, {}))]
              /\ dropping' = <<Release(New)>>
        /\ UNCHANGED <<area, leaked>>

\* Model::to_bytes, to_file: compile options over the model, and the output buffer of the
\* engine, are released on every path.
to_bytes ==
    \E m \in Held("model") :
        /\ Room(2)
        /\ heap' = [heap EXCEPT ![New] = Owned(Object("compileoptions", <<>>, {m})),
                                ![New2] = Owned(Object("output", <<>>, {}))]
        /\ dropping' = <<Release(New2), Release(New)>>
        /\ UNCHANGED <<area, leaked>>

\* Session::from_model: the model is borrowed by the call only.  apply_model: the call
\* points to the session and the model.
from_model == Held("model") # {} /\ MakeOrUndo(Object("session", <<>>, {}))
apply_model ==
    \E s \in Held("session"), m \in Held("model") : Undoes(<<>>, Object("call", <<>>, {s, m}))

(***************************************************************************)
(* Custom operators                                                        *)
(***************************************************************************)
CustomOpDomain == Make(Object("domain", <<>>, {}))

\* create_kernel boxes the kernel's state; the engine gives it back to destroy.
create_kernel(d) == Owned(Object("kernel", <<>>, {d}))

\* error_to_status: a callback that fails or panics makes a status that the engine frees.
error_to_status == Undoes(<<>>, Object("status", <<>>, {}))

\* with_custom_op_domain and a session built from the options: "the domain MUST outlive
\* every session built from these options".  The session owns its kernels; one that then
\* fails destroys them.
with_custom_op_domain ==
    \E d \in Held("domain") :
        /\ Room(2)
        /\ \/ /\ heap' = [heap EXCEPT ![New] = Borrowing(Object("session", <<New2>>, {d}), {d}),
                                      ![New2] = create_kernel(d)]
              /\ UNCHANGED dropping
           \/ /\ heap' = [heap EXCEPT ![New2] = create_kernel(d)]
              /\ dropping' = <<Release(New2)>>
        /\ UNCHANGED <<area, leaked>>

\* compute, infer_output_shape: the call points to the kernel, which only the session keeps.
compute ==
    \E s \in Held("session") :
        Undoes(<<>>, Object("call", <<>>, GuardsOf(s))) \/ error_to_status

\* KernelInfo::to_owned, OpAttr and Op::create: owning, independent of the call.
OwnedKernelInfo == Held("session") # {} /\ Make(Object("kernelinfo", <<>>, {}))
OpAttr == Make(Object("attr", <<>>, {}))
OpCreate == Held("session") # {} /\ Make(Object("op", <<>>, {}))

\* attr_strings and config_entries free what the engine allocated, parallel_for reclaims
\* its boxed closure, on every path.
KernelTemporaries == Held("session") # {} /\ Undoes(<<>>, Object("temporary", <<>>, {}))

\* input_type_shape, and set_output_type_shape: the engine takes the information on
\* success only.
input_type_shape == Held("session") # {} /\ Make(Object("shapeinfo", <<>>, {}))
set_output_type_shape ==
    \E s \in Held("session"), i \in Movable("shapeinfo") : Gives(i, s)

(***************************************************************************)
(* Providers                                                               *)
(***************************************************************************)
\* KernelDefBuilder::new and build, OpSchema::get, ProfilingEvent::new.
KernelDefBuilder == Make(Object("defbuilder", <<>>, {}))
KernelDef == Held("defbuilder") # {} /\ Make(Object("kerneldef", <<>>, {}))
OpSchema == Make(Object("schema", <<>>, {}))
ProfilingEvent == Make(Object("event", <<>>, {}))

\* OpSchema::type_constraint: borrowed from the schema.
type_constraint == \E s \in Held("schema") : Make(Borrowing(Object("constraint", <<>>, {s}), {s}))

\* ep_factory_instance, leaked to the engine by CreateEpFactories and reclaimed by
\* ReleaseEpFactory; with no room in the engine's array it is reclaimed at once.
CreateEpFactories == MakeOrUndo(Object("factory", <<>>, {}))

OwnedHardwareDevice == Make(Object("hardware", <<>>, {}))

\* OwnedEpDevice::new: the factory "must outlive this device".
OwnedEpDevice ==
    \E f \in Held("factory"), h \in Held("hardware") :
        Make(Borrowing(Object("authoreddevice", <<>>, {f, h}), {f, h}))

\* create_ep leaks a boxed provider instance to the session, which gives it back to the
\* factory's release_ep.
create_ep(d) == Owned(Object("ep", <<>>, heap[d].uses))

\* append_ep_device and a session built from the options: device, hardware and factory
\* "must outlive every session built from these options".
append_ep_device ==
    \E d \in Held("authoreddevice") :
        /\ Room(2)
        /\ \/ /\ heap' = [heap EXCEPT ![New2] = create_ep(d),
                     ![New] = Borrowing(Object("session", <<New2>>, {d} \cup heap[d].uses),
                                        {d} \cup heap[d].uses)]
              /\ UNCHANGED dropping
           \/ /\ heap' = [heap EXCEPT ![New2] = create_ep(d)]
              /\ dropping' = <<Release(New2)>>
        /\ UNCHANGED <<area, leaked>>

\* get_name, get_capability: calls into the provider of a session, which may fail.
get_capability ==
    \E s \in Held("session") :
        Undoes(<<>>, Object("call", <<>>, GuardsOf(s))) \/ error_to_status

ModelNext ==
    \/ NodeAttr \/ with_attributes \/ Graph \/ add_node \/ CallerBytes \/ CallerTensor
    \/ add_initializer \/ Model \/ add_graph \/ ModelCompilationOptions \/ set_input_model
    \/ set_input_model_from_buffer_with_external_data \/ to_bytes
    \/ from_model \/ apply_model
    \/ TensorTypeAndShapeInfo \/ TypeInfo \/ ValueInfo \/ set_inputs

OperatorNext ==
    \/ CustomOpDomain \/ with_custom_op_domain \/ compute \/ OwnedKernelInfo \/ OpAttr \/ OpCreate
    \/ KernelTemporaries \/ input_type_shape \/ set_output_type_shape
    \/ KernelDefBuilder \/ KernelDef \/ OpSchema \/ ProfilingEvent \/ type_constraint
    \/ RuntimeTypeInfo \/ TypeView

ProviderNext ==
    \/ CreateEpFactories \/ OwnedHardwareDevice \/ OwnedEpDevice \/ append_ep_device
    \/ get_capability
=============================================================================
