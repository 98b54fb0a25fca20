--------------------------------- MODULE Tls ----------------------------------
(***************************************************************************)
(* src/tls.rs: which TLS handshakes the mTLS listener completes, and the   *)
(* identity it derives.  A handshake is one token of the byte stream; what *)
(* it carries is in Handshake.  The cryptography is rustls' (external): a  *)
(* signature verifies exactly when the client holds the certificate's key. *)
(***************************************************************************)
EXTENDS Integers

CONSTANT Handshake     \* token -> [leaf, key, signed], see HandshakeOK

HandshakeOK(h) ==
    /\ h.leaf \in {"x509", "garbled", "absent"}
    /\ h.signed \in BOOLEAN

ASSUME TlsAssumption == \A t \in DOMAIN Handshake : HandshakeOK(Handshake[t])

Anonymous == "none"    \* verified_peer_id = None

\* peer_id_from_client_cert_der: a digest of the leaf's public key alone.
PeerIdFromClientCertDer(h) == IF h.leaf = "x509" THEN h.key ELSE Anonymous

\* client_auth_mandatory and verify_client_cert: any leaf that parses will do.
VerifyClientCert(h) == h.leaf = "x509"

\* Mutant: whoever presents a certificate is taken to hold its key.
TlsAcceptsUnsigned(token) == token \in DOMAIN Handshake /\ VerifyClientCert(Handshake[token])

\* The handshake build_server_config's acceptor completes.
TlsAccepts(token) ==
    /\ token \in DOMAIN Handshake
    /\ VerifyClientCert(Handshake[token])
    /\ Handshake[token].signed

\* extract_client_peer_id, after the handshake
ExtractClientPeerId(token) == PeerIdFromClientCertDer(Handshake[token])
==============================================================================
