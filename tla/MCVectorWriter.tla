-------------------------- MODULE MCVectorWriter --------------------------
\* The topic of the instances of VectorWriter.
EXTENDS VectorWriter, TLC

CONSTANTS s1, s2, s3

\* An event of two symbols, one without vectors, one of another type, and later
\* vectors of the same symbols.
Events == <<<<s1, s2>>, <<>>, None, <<s2, s3>>, <<s1>>, <<s1>>>>
=============================================================================
