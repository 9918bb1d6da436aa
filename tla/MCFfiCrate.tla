----------------------------- MODULE MCFfiCrate -----------------------------
EXTENDS FfiCrate

MCTargets == {<<"linux", "x86_64">>, <<"linux", "aarch64">>, <<"darwin", "aarch64">>,
              <<"windows", "x86_64">>}

T(lead, base, depth, const) == [lead |-> lead, base |-> base, depth |-> depth, const |-> const]
Types == {T(<<>>, "size_t", 0, FALSE), T(<<>>, "_Bool", 0, FALSE), T(<<>>, "void", 1, FALSE),
          T(<<"const">>, "char", 1, FALSE), T(<<"const">>, "char", 2, TRUE),
          T(<<>>, "OrtEnv", 2, FALSE), T(<<"const", "struct">>, "OrtEnv", 1, FALSE),
          T(<<"enum">>, "OrtLoggingLevel", 0, FALSE), T(<<>>, "OrtStatusPtr", 1, FALSE)}

P(form, type) == [form |-> form, type |-> type, inner |-> <<>>]
Callback == [form |-> "callback", type |-> T(<<>>, "void", 0, FALSE),
             inner |-> <<T(<<>>, "void", 1, FALSE), T(<<"const">>, "char", 2, TRUE)>>]

\* A type of one word can stand without a name, as can every pointer.
Params == {P("named", t) : t \in Types} \cup {P("array", t) : t \in Types}
          \cup {P("unnamed", t) : t \in {u \in Types : u.depth > 0 \/ u.lead = <<>>}}

Layouts == [star : {"left", "right", "both"}, spaced : BOOLEAN, attribute : BOOLEAN, broken : BOOLEAN]
Plain == [star |-> "left", spaced |-> FALSE, attribute |-> TRUE, broken |-> FALSE]
D(name, ret, params) == [name |-> name, ret |-> ret, params |-> params]

Status == T(<<>>, "OrtStatusPtr", 0, FALSE)
Void == T(<<>>, "void", 0, FALSE)
First == D("CreateCUDAProviderOptions", Status, <<P("named", T(<<>>, "OrtEnv", 2, FALSE))>>) @@ Plain
Final == D("ReleaseEnv", Void, <<P("named", T(<<>>, "OrtEnv", 1, FALSE))>>) @@ Plain
Middle == {D("KernelContext_ParallelFor", Status, <<p, Callback>>) @@ l : p \in Params, l \in Layouts}
          \cup {D("GetEpApi", T(<<"const">>, "OrtEnv", 1, FALSE), <<>>) @@ l : l \in Layouts}

MCHeaders == {[kind |-> "OrtApi", members |-> <<First, d, Final>>] : d \in Middle}
             \cup {[kind |-> "OrtEpApi", members |-> <<d, Final>>] :
                     d \in {e \in Middle : e.star = "both" /\ e.broken}}
             \cup {[kind |-> k, members |-> <<>>] : k \in {"OrtApi", "OrtEpApi"}}

MCTraits == ("CreateCUDAProviderOptions" :> {"provider"}) @@ ("KernelContext_ParallelFor" :> {"kernel"})
            @@ ("GetEpApi" :> {"getter"}) @@ ("ReleaseEnv" :> {})
=============================================================================
