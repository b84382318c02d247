------------------------ MODULE MCCollectionChanges ------------------------
EXTENDS CollectionChanges
=============================================================================
