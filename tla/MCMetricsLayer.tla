--------------------------- MODULE MCMetricsLayer ---------------------------
(* Instantiation of MetricsLayer for TLC.                                  *)
EXTENDS MetricsLayer

CONSTANTS s1, s2, s3, shouldRateLimit, checkAndUpdate, datastore

\* The layer as the note under it builds one:
\* MetricsLayer::new().gather("should_rate_limit", consumer, ["datastore"]),
\* over spans named like those of the server: a request span, the storage
\* call it makes, and the datastore spans of each Redis round trip.
MCGroups == Gather(<<>>, shouldRateLimit, {datastore})
==============================================================================
