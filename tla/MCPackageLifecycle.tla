------------------------ MODULE MCPackageLifecycle ------------------------
EXTENDS PackageLifecycle
=============================================================================
