----------------------------- MODULE MCDeferred -----------------------------
(***************************************************************************)
(* Instances of DeferredSignal for TLC: a token at TPL_NOTIFY and one at   *)
(* TPL_CALLBACK.                                                           *)
(***************************************************************************)
EXTENDS DeferredSignal
CONSTANTS d1, d2, t1, t2, e1, e2
MCDpcs == {d1, d2}
MCTokens == {t1, t2}
MCNotifyTokens == {t1}
MCDpcOf == (t1 :> d1) @@ (t2 :> d2)
MCEntries == {e1, e2}
=============================================================================
