---------------------------- MODULE MCDownloader ----------------------------
(***************************************************************************)
(* An instance of Downloader for TLC: a client with the whole chain and    *)
(* one that lags behind, and a window smaller than the chain.              *)
(***************************************************************************)
EXTENDS Downloader, TLC

CONSTANTS tall, short

MCServes == (tall :> Top) @@ (short :> Top - 1)
=============================================================================
