--------------------------- MODULE MCWasmSandbox ---------------------------
(* Two versions of one module, the hotswap of docs/WASM_INTEROP.md, and a  *)
(* request that leaves its sandbox name empty.                             *)
EXTENDS WasmSandbox

CONSTANTS t1, t2

MCIdentities ==
    { << <<"s">>, <<"m">>, <<"1">> >>, << <<"s">>, <<"m">>, <<"2">> >>,
      << <<>>, <<"m">>, <<"1">> >> }

MCTargetGpus == {-1, 1}

MCSelectorGpus == {0}

MCThreads == {t1, t2}
=============================================================================
