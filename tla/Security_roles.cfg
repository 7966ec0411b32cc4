\* One user who is not the root, two groups, a document in a folder.
CONSTANTS
    u1 = u1
    root = root
    g1 = g1
    g2 = g2
    doc = doc
    folder = folder
    Visitor = Visitor
    None = None
    User = {u1}
    Group = {g1, g2}
    Object = {doc, folder}
    Permission = {"read", "edit"}
    CustomRole = {"editor"}
    Root = root
    Parent <- MCParent
    Owner <- MCOwner
    Creator <- MCCreator
    Grantable <- MCGrantable
    Assignable <- MCAssignable
    MaxGrants = 2
SPECIFICATION Spec
INVARIANTS TypeOK CachesAreSound PermissionsAreCurrent ListedIsPermitted PermittedIsListed FoundIsReadable
