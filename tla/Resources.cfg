SPECIFICATION Spec
CONSTANTS
    Images = {1, 2, 3}
    Sets = {4}
    Sprites = {5}
    Atlases = {6, 7}
    Textures = {8, 9}
    ImageOf <- MCImageOf
    Tiles <- MCTiles
    SetOf <- MCSetOf
    FilesOf <- MCFilesOf
    Layouts <- MCLayouts
    Wallpapers = {3}
    LongLived = TRUE
    Limit = 1
    Asked = {3, 5, 6, 7}
    Copies = 3
    Memory = 9
    MaxHeld = 1
INVARIANTS TypeOK NoDangling CountsExact NoneLost OrphansRight SweepValid
