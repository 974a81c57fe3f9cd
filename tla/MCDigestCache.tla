--------------------------- MODULE MCDigestCache ---------------------------
EXTENDS DigestCache
=============================================================================
