------------------------------ MODULE TlsTransport ------------------------------
(* transport_tls_esp32.c: the TLS transport of the device.  The network context   *)
(* holds one pointer, xSSLContext, to a heap block that owns an esp_transport;     *)
(* esp-tls keeps one global CA store.  A connect reuses the block it finds and     *)
(* allocates one otherwise; a failed connect and a disconnect free it.  The        *)
(* functions run to completion on the cloud task, so each is one operator.         *)
EXTENDS Integers

CONSTANTS Handles,  \* the blocks pvPortMalloc can return
          NULL

ASSUME TlsAssumption == NULL \notin Handles

VARIABLES xSSLContext,  \* TlsTransportParams_t.xSSLContext: a block or NULL
          live,         \* blocks allocated and not yet freed
          caStore,      \* the global CA store is set
          session,      \* the transport of the current block has a TLS session
          orphans       \* sessions replaced while open: nothing can close them

tlsVars == <<xSSLContext, live, caStore, session, orphans>>

TlsTypeOK ==
  /\ xSSLContext \in Handles \cup {NULL}
  /\ live \subseteq Handles
  /\ caStore \in BOOLEAN
  /\ session \in BOOLEAN
  /\ orphans \in Nat

TlsInit ==
  /\ xSSLContext = NULL
  /\ live = {}
  /\ caStore = FALSE
  /\ session = FALSE
  /\ orphans = 0

\* esp_transport_connect starts a session of its own; one that is still open on
\* the same transport is no longer reachable from it.
esp_transport_connect ==
  orphans' = IF session THEN orphans + 1 ELSE orphans

\* The block a connect works on: the one it finds, or a fresh allocation.
BlockFor(h) == IF xSSLContext # NULL THEN h = xSSLContext ELSE h \in Handles \ live

\* TLS_Socket_Connect returns success. The CA store is set only with a new block.
TLS_Socket_Connect_Success ==
  \E h \in Handles :
    /\ BlockFor(h)
    /\ esp_transport_connect
    /\ xSSLContext' = h
    /\ live' = live \cup {h}
    /\ caStore' = (xSSLContext = NULL \/ caStore)
    /\ session' = TRUE

\* TLS_Socket_Connect returns eTLSTransportConnectFailure: close, free, forget.
TLS_Socket_Connect_Failure ==
  \E h \in Handles :
    /\ BlockFor(h)
    /\ esp_transport_connect
    /\ xSSLContext' = NULL
    /\ live' = live \ {h}
    /\ caStore' = FALSE
    /\ session' = FALSE

\* TLS_Socket_Connect returns eTLSTransportInsufficientMemory.
TLS_Socket_Connect_NoMemory ==
  /\ xSSLContext = NULL
  /\ UNCHANGED tlsVars

\* Mutant: the block is freed and the pointer to it kept.
TLS_Socket_Disconnect_Dangling ==
  /\ live' = live \ {xSSLContext}
  /\ caStore' = FALSE
  /\ session' = FALSE
  /\ UNCHANGED <<xSSLContext, orphans>>

\* Mutant: the block is freed and its transport not closed.
TLS_Socket_Disconnect_Unclosed ==
  /\ xSSLContext' = NULL
  /\ live' = live \ {xSSLContext}
  /\ caStore' = FALSE
  /\ UNCHANGED <<session, orphans>>

\* TLS_Socket_Disconnect. It reads through xSSLContext without checking it.
TLS_Socket_Disconnect ==
  /\ xSSLContext' = NULL
  /\ live' = live \ {xSSLContext}
  /\ caStore' = FALSE
  /\ session' = FALSE
  /\ UNCHANGED orphans

================================================================================
