------------------------- MODULE MCFirestoreClient -------------------------
EXTENDS FirestoreClient
==============================================================================
