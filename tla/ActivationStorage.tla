--------------------------- MODULE ActivationStorage ---------------------------
(***************************************************************************)
(* Quantized activations of the parallel linear layers                      *)
(* (core/tensor_parallel/layers.py: OffloadReload, CustomLN_Pre and _Post,  *)
(* CustomACT_Pre and _Post).                                                *)
(*                                                                          *)
(* A layer keeps its input quantized, or the input of the norm or           *)
(* activation function before it, and points hidden_state.data at           *)
(* OffloadReload.gpu_storage, one buffer for all layers and microbatches.   *)
(* The backward pass puts the input back there, dequantized or computed     *)
(* again, right before the layer reads it for its weight gradient.          *)
(* What is stored is identified by the layer and the microbatch it is of.   *)
(***************************************************************************)

Activation(layer, mb) == <<layer, mb>>

EmptyStore == [saved |-> <<>>, gpu_storage |-> "unwritten"]

\* Where the quantized input of a call is kept: in the context or share_list of the
\* call. A bug would keep it in the layer.
MutCall(layer, mb) == layer
Call(layer, mb) == <<layer, mb>>

\* Forward pass: CustomLN_Pre / CustomACT_Pre quantize their input, the Post function
\* or OffloadReload lets the layer's input go.
SaveInput(store, layer, mb) ==
  [store EXCEPT !.saved =
     [call \in DOMAIN @ \cup {Call(layer, mb)} |->
        IF call = Call(layer, mb) THEN Activation(layer, mb) ELSE @[call]]]

\* Backward pass: OffloadReload, CustomLN_Post and CustomACT_Post run first.
Reload(store, layer, mb) == [store EXCEPT !.gpu_storage = store.saved[Call(layer, mb)]]

\* Then the layer itself, and CustomLN_Pre / CustomACT_Pre, which clear the share_list.
Release(store, layer, mb) ==
  [store EXCEPT !.saved = [call \in DOMAIN @ \ {Call(layer, mb)} |-> @[call]]]
=============================================================================
