---------------------------- MODULE MCSslCapture ----------------------------
(* Instances of SslCapture for TLC. *)
EXTENDS SslCapture, TLC

(* SSL_read of BoringSSL makes the handshake itself. *)
MCExported == <<"SSL_read", "SSL_do_handshake", "SSL_read_ex">>

MCNested == {<<"SSL_read", "SSL_do_handshake">>}

(* The hypothesis of SslCaptureProofs about the lengths. *)
ASSUME MCExCallNone == ExCallNone

Symmetry == Permutations(Threads)
=============================================================================
