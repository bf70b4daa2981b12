------------------------------- MODULE MCJawt -------------------------------
\* JawtSurface on two painters, one of which may ask for a JAWT without Lock.
EXTENDS JawtSurface

MCVersions == {JAWT_VERSION_1_3, JAWT_VERSION_9}
=============================================================================
